---------------------------- MODULE Spec2Model ----------------------------
(***************************************************************************)
(* Reference index, cache, resolver and resilient fetcher of the EDGAR     *)
(* filing cards service.                                                   *)
(*                                                                         *)
(* Strings are sequences of one-character strings.  A canonical id (cik)   *)
(* is a sequence of digit characters.  A row of the index is a record      *)
(* [ticker, cik, name].                                                    *)
(***************************************************************************)
EXTENDS Integers, Sequences, FiniteSets, Bags, TLC

VARIABLES
  fscript,   \* fetcher: what the network answers to the 1st, 2nd, ... attempt
  fres,      \* fetcher: outcome of the fetchJSON call
  now,       \* the wall clock, Date.now(), in ms
  CACHE,     \* loadAll: module-level CACHE (rows or null)
  LAST,      \* loadAll: module-level LAST (ms)
  cacheSrc,  \* history: when the build that produced CACHE's rows began
  pc,        \* loadAll: position of each request
  t0,        \* loadAll: the request's local `now`
  arr1,      \* loadAll: the request's local arr1
  ret,       \* loadAll: what the request's last call returned
  kvConf,    \* loadIndex: KV_URL and KV_TOKEN are both set
  kvStore,   \* loadIndex: the external key-value slot
  kvFlight,  \* loadIndex: the bag of kvSet requests sent and not yet answered
  kpc,       \* loadIndex: position of the request
  karr1,     \* loadIndex: the request's local arr1
  kret,      \* loadIndex: what the last call returned
  khist,     \* history: when the call was issued, and the last finished build
  up1,       \* lookup: primary registry document
  up2,       \* lookup: secondary registry document and how its fetch ends
  list,      \* lookup: the index the handler resolves against
  q,         \* lookup: the query
  hit,       \* lookup: the handler's response
  lpc,       \* lookup: position
  sup1,      \* suggest: primary registry document and how its fetch ends
  sup2,      \* suggest: secondary registry document and how its fetch ends
  sq,        \* suggest: the q parameter
  slimit,    \* suggest: the limit parameter
  sres,      \* suggest: the handler's response
  sub,       \* filings: the submissions document and how its fetch ends
  fout,      \* filings: the handler's response
  mounted,   \* page: the first render's effects have run
  input,     \* page: the text of the input box
  resolvedCik, \* page: the registrant id shown
  filings,   \* page: the filings shown
  loading,   \* page: the filings loading flag
  error,     \* page: the error shown, or null
  calls,     \* page: the fetchFilingsFor calls, in the order they began
  suggestions, \* page: the suggestion list
  showSuggest, \* page: the dropdown is open
  suggestLoading, \* page: the suggestion loading flag
  abortRef,  \* page: the request of abortRef.current, 0 for null
  sugTimer,  \* page: the pending debounce timer
  sugReqs,   \* page: the suggest requests, in the order they were issued
  activeIndex, \* page: the dropdown entry the keyboard is on, -1 for none
  blurTimeout \* page: the blur timer is pending

fetchVars  == <<fscript, fres>>
cacheVars  == <<now, CACHE, LAST, cacheSrc, pc, t0, arr1, ret>>
kvVars     == <<kvConf, kvStore, kvFlight, kpc, karr1, kret, khist>>
lookupVars == <<up1, up2, list, q, hit, lpc>>
suggestVars == <<sup1, sup2, sq, slimit, sres>>
filingVars == <<sub, fout>>
pageVars == <<mounted, input, resolvedCik, filings, loading, error, calls,
              suggestions, showSuggest, suggestLoading, abortRef, sugTimer, sugReqs,
              activeIndex, blurTimeout>>
vars == <<fscript, fres, now, CACHE, LAST, cacheSrc, pc, t0, arr1, ret,
          kvConf, kvStore, kvFlight, kpc, karr1, kret, khist,
          up1, up2, list, q, hit, lpc,
          sup1, sup2, sq, slimit, sres, sub, fout,
          mounted, input, resolvedCik, filings, loading, error, calls,
          suggestions, showSuggest, suggestLoading, abortRef, sugTimer, sugReqs,
          activeIndex, blurTimeout>>

-----------------------------------------------------------------------------
(* Strings *)

Digits == {"0", "1", "2", "3", "4", "5", "6", "7", "8", "9"}

\* String.prototype.toUpperCase, one character
UpperChar(c) ==
  CASE c = "a" -> "A"
    [] c = "b" -> "B"
    [] c = "c" -> "C"
    [] c = "d" -> "D"
    [] c = "e" -> "E"
    [] c = "h" -> "H"
    [] c = "i" -> "I"
    [] c = "k" -> "K"
    [] c = "l" -> "L"
    [] c = "m" -> "M"
    [] c = "n" -> "N"
    [] c = "o" -> "O"
    [] c = "s" -> "S"
    [] c = "t" -> "T"
    [] c = "x" -> "X"
    [] OTHER -> c

toUpperCase(s) == [i \in 1..Len(s) |-> UpperChar(s[i])]

RECURSIVE TrimLeft(_)
TrimLeft(s) ==
  IF s # <<>> /\ Head(s) = " " THEN TrimLeft(Tail(s)) ELSE s

RECURSIVE TrimRight(_)
TrimRight(s) ==
  IF s # <<>> /\ s[Len(s)] = " " THEN TrimRight(SubSeq(s, 1, Len(s) - 1)) ELSE s

\* String.prototype.trim
trim(s) == TrimRight(TrimLeft(s))

IsDot(c) == c = "."
NotDot(c) == c # "."
NotDotDash(c) == c \notin {".", "-"}
IsDigit(c) == c \in Digits

\* s.replace(/\./g, "")
removeDots(s) == SelectSeq(s, NotDot)
\* s.replace(/\./g, "-")
dotsToDash(s) == [i \in 1..Len(s) |-> IF IsDot(s[i]) THEN "-" ELSE s[i]]
\* s.replace(/[-.]/g, "")
plainKey(s) == SelectSeq(s, NotDotDash)
\* s.replace(/\D/g, "")
digitsOnly(s) == SelectSeq(s, IsDigit)

\* String.prototype.startsWith
startsWith(s, p) == Len(p) <= Len(s) /\ SubSeq(s, 1, Len(p)) = p
\* String.prototype.includes
includes(s, p) ==
  \E i \in 0..(Len(s) - Len(p)) : SubSeq(s, i + 1, i + Len(p)) = p

RECURSIVE padStart(_, _, _)
padStart(s, width, c) ==
  IF Len(s) >= width THEN s ELSE padStart(<<c>> \o s, width, c)

\* Array.from(new Set(xs)): first occurrences, in order
RECURSIVE uniq(_)
uniq(xs) ==
  IF xs = <<>> THEN <<>>
  ELSE LET init == uniq(SubSeq(xs, 1, Len(xs) - 1))
           x == xs[Len(xs)]
       IN IF \E i \in 1..Len(init) : init[i] = x THEN init ELSE Append(init, x)

CikWidth == 10

pad10(x) == padStart(digitsOnly(x), CikWidth, "0")

norms(sym) ==
  LET u == trim(toUpperCase(sym))
      nodots == removeDots(u)
      dash == dotsToDash(u)
      plain == plainKey(u)
  IN uniq(<<u, nodots, dash, plain>>)

-----------------------------------------------------------------------------
(* Resilient fetcher: fetchJSON *)

MaxAttempts == 4
InitialDelay == 200

NoBody == [isArray |-> FALSE, rows |-> <<>>, none |-> TRUE]

\* the try block covers fetch(), the status check and r.json(): every
\* outcome but a parsed body lands in the catch block
Caught_ParseTerminal(kind) == kind \in {"status", "transport"}
Caught(kind) == kind # "ok"

NextDelay_Linear(delay) == delay + InitialDelay
NextDelay(delay) == delay * 2

LoopBound == MaxAttempts

RECURSIVE fetchLoop(_, _, _, _, _)
fetchLoop(script, i, delay, attempts, waits) ==
  IF i >= LoopBound
    THEN [ok |-> FALSE, body |-> NoBody, attempts |-> attempts, waits |-> waits,
          err |-> "fetch_failed"]
    ELSE LET o == script[i + 1] IN
      IF o.kind = "ok"
        THEN [ok |-> TRUE, body |-> o.body, attempts |-> Append(attempts, o.kind),
              waits |-> waits, err |-> "none"]
      ELSE IF Caught(o.kind)
        THEN fetchLoop(script, i + 1, NextDelay(delay),
                       Append(attempts, o.kind), Append(waits, delay))
      ELSE [ok |-> FALSE, body |-> NoBody, attempts |-> Append(attempts, o.kind),
            waits |-> waits, err |-> o.kind]

fetchJSON(script) == fetchLoop(script, 0, InitialDelay, <<>>, <<>>)

\* the message of the error an attempt ends with: `${r.status} ${r.statusText}`
\* for a non-success status (503 here), the runtime's for a rejected fetch(),
\* and for r.json() the runtime's SyntaxError, whose text quotes the body: the
\* unparsable body is <html>
Message(kind) ==
  CASE kind = "status" -> "503 Service Unavailable"
    [] kind = "transport" -> "fetch failed"
    [] kind = "badjson" -> "Unexpected token '<', \"<html>\" is not valid JSON"
    [] OTHER -> "fetch_failed"

\* fetchJSON of the route with the in-process cache: `err = e` in the catch
\* block, and `throw err || new Error("fetch_failed")` after the loop
RECURSIVE fetchLoopErr(_, _, _)
fetchLoopErr(script, i, err) ==
  IF i >= MaxAttempts
    THEN [ok |-> FALSE, body |-> NoBody,
          err |-> IF err = "null" THEN "fetch_failed" ELSE err]
    ELSE LET o == script[i + 1] IN
      IF o.kind = "ok"
        THEN [ok |-> TRUE, body |-> o.body, err |-> "none"]
        ELSE fetchLoopErr(script, i + 1, Message(o.kind))

fetchJSONErr(script) == fetchLoopErr(script, 0, "null")


-----------------------------------------------------------------------------
(* Upstream registry documents *)

RawRow(t, c, n) == [ticker |-> t, cik |-> c, title |-> n]

\* a parsed JSON body: the primary document is an object keyed by index,
\* the secondary one an array; `rows` lists its entries in key order
Doc(isArr, rows) == [isArray |-> isArr, rows |-> rows, none |-> FALSE]

\* two snapshots of the primary registry and one of the secondary
DocP1 == Doc(FALSE, << RawRow(<<"A", "-", "B">>, <<"1">>, <<"A", "b">>),
                       RawRow(<<"C">>, <<"2">>, <<"C", "a">>) >>)
DocP2 == Doc(FALSE, << RawRow(<<"A", "-", "B">>, <<"1">>, <<"A", "b">>),
                       RawRow(<<"B">>, <<"3">>, <<"B", "a">>) >>)
DocS1 == Doc(TRUE, << RawRow(<<"A", ".", "B">>, <<"4">>, <<"A", "b">>) >>)

PrimaryDocs == {DocP1, DocP2}
SecondaryDocs == {DocS1}

FailKinds == {"status", "transport", "badjson"}
Failure(kind) == [kind |-> kind, body |-> NoBody]
Success(doc) == [kind |-> "ok", body |-> doc]
Outcomes(docs) == {Failure(k) : k \in FailKinds} \cup {Success(d) : d \in docs}

\* one answer per attempt the fetcher can make, and one to spare
ScriptLen == MaxAttempts + 1
Scripts(docs) == [1..ScriptLen -> Outcomes(docs)]

-----------------------------------------------------------------------------
(* Reference index builder: the row mapping and the merge of loadAll and
   loadIndex *)

\* ({ ticker: String(x.ticker || "").toUpperCase(), cik: pad10(x.cik),
\*    name: String(x.title || "") })
toRow(raw) ==
  [ticker |-> toUpperCase(raw.ticker), cik |-> pad10(raw.cik), name |-> raw.title]

mapRows(rows) == [i \in 1..Len(rows) |-> toRow(rows[i])]

\* byPlain: a Map, kept as its entries in insertion order
mapHas(m, key) == \E i \in 1..Len(m) : m[i].key = key
mapSet(m, key, val) ==
  IF mapHas(m, key)
    THEN [i \in 1..Len(m) |-> IF m[i].key = key THEN [key |-> key, val |-> val] ELSE m[i]]
    ELSE Append(m, [key |-> key, val |-> val])
mapValues(m) == [i \in 1..Len(m) |-> m[i].val]

\* for (const n of norms(r.ticker)) { key = plain(n); if (!has(key)) set(key, r) }
RECURSIVE pushKeys(_, _, _)
pushKeys(m, r, ns) ==
  IF ns = <<>> THEN m
  ELSE LET key == plainKey(Head(ns))
       IN pushKeys(IF mapHas(m, key) THEN m ELSE mapSet(m, key, r), r, Tail(ns))

push_ByTicker(m, r) == IF mapHas(m, r.ticker) THEN m ELSE mapSet(m, r.ticker, r)
push(m, r) == pushKeys(m, r, norms(r.ticker))

RECURSIVE forEachPush(_, _)
forEachPush(m, rows) ==
  IF rows = <<>> THEN m ELSE forEachPush(push(m, Head(rows)), Tail(rows))

\* arr2.forEach(push); arr1.forEach(push); Array.from(byPlain.values())
mergeSources_PrimaryFirst(a2, a1) == mapValues(forEachPush(forEachPush(<<>>, a1), a2))
mergeSources(a2, a1) == mapValues(forEachPush(forEachPush(<<>>, a2), a1))

\* the secondary list of loadAll/loadIndex: fetchJSON in a try block whose
\* catch leaves arr2 empty; a body that is no array is ignored
secondaryRows(r) ==
  IF r.ok /\ r.body.isArray THEN mapRows(r.body.rows) ELSE <<>>

\* what the awaits of a build can resolve to
Summary(r) == [ok |-> r.ok, body |-> r.body, err |-> r.err]
PrimaryResults == {Summary(fetchJSON(s)) : s \in Scripts(PrimaryDocs)}
SecondaryResults == {Summary(fetchJSON(s)) : s \in Scripts(SecondaryDocs)}

\* the same awaits in loadAll of the route with the in-process cache
LoadAllPrimaryResults == {fetchJSONErr(s) : s \in Scripts(PrimaryDocs)}
LoadAllSecondaryResults == {fetchJSONErr(s) : s \in Scripts(SecondaryDocs)}

-----------------------------------------------------------------------------
(* Index cache in process memory: loadAll of the lookup route.  A request is
   suspended only at its two awaits; the clock runs on its own. *)

TTL_MS == 3600000
MaxTicks == 4
TickMs == TTL_MS \div 2

Requests == {"r1", "r2"}

Null == [null |-> TRUE, rows |-> <<>>]
Rows(rows) == [null |-> FALSE, rows |-> rows]

NoReturn == [kind |-> "none", by |-> "none", rows |-> <<>>, built |-> FALSE,
             age |-> 0, err |-> "none"]

\* CACHE && now - LAST < TTL_MS
Fresh_Inclusive(cache, nowv, last) == ~cache.null /\ nowv - last <= TTL_MS
Fresh(cache, nowv, last) == ~cache.null /\ nowv - last < TTL_MS

\* LAST = now: the `now` read when the call began
Stamp_Clock(callNow, clock) == clock
Stamp(callNow, clock) == callNow

\* LAST when the primary fetchJSON throws: the throw leaves loadAll before
\* `LAST = now`
LastAfterFailure_Stamped(last, callNow) == callNow
LastAfterFailure(last, callNow) == last

CacheIdle ==
  /\ now = 0 /\ CACHE = Null /\ LAST = 0 /\ cacheSrc = 0
  /\ pc = [p \in Requests |-> "idle"]
  /\ t0 = [p \in Requests |-> 0]
  /\ arr1 = [p \in Requests |-> <<>>]
  /\ ret = NoReturn

Tick ==
  /\ now < MaxTicks * TickMs
  /\ now' = now + TickMs
  /\ UNCHANGED <<CACHE, LAST, cacheSrc, pc, t0, arr1, ret>>

\* const now = Date.now(); if (CACHE && now - LAST < TTL_MS) return CACHE;
\* otherwise the call goes on to await the primary fetchJSON
LoadAllBegin(p) ==
  /\ pc[p] = "idle"
  /\ IF Fresh(CACHE, now, LAST)
       THEN /\ ret' = [kind |-> "rows", by |-> p, rows |-> CACHE.rows,
                       built |-> FALSE, age |-> now - cacheSrc, err |-> "none"]
            /\ UNCHANGED <<pc, t0>>
       ELSE /\ pc' = [pc EXCEPT ![p] = "fetch1"]
            /\ t0' = [t0 EXCEPT ![p] = now]
            /\ UNCHANGED ret
  /\ UNCHANGED <<now, CACHE, LAST, cacheSrc, arr1>>

\* j1 = await fetchJSON(primary): a failure propagates out of loadAll
LoadAllPrimary(p) ==
  /\ pc[p] = "fetch1"
  /\ \E r \in LoadAllPrimaryResults :
       IF r.ok
         THEN /\ arr1' = [arr1 EXCEPT ![p] = mapRows(r.body.rows)]
              /\ pc' = [pc EXCEPT ![p] = "fetch2"]
              /\ UNCHANGED <<ret, t0, LAST>>
         ELSE /\ ret' = [kind |-> "error", by |-> p, rows |-> <<>>,
                         built |-> TRUE, age |-> 0, err |-> r.err]
              /\ pc' = [pc EXCEPT ![p] = "idle"]
              /\ t0' = [t0 EXCEPT ![p] = 0]
              /\ LAST' = LastAfterFailure(LAST, t0[p])
              /\ UNCHANGED arr1
  /\ UNCHANGED <<now, CACHE, cacheSrc>>

\* j2 = await fetchJSON(secondary) in try/catch, then, with no await between,
\* the merge, CACHE = ..., LAST = now and the return
LoadAllSecondary(p) ==
  /\ pc[p] = "fetch2"
  /\ \E r \in LoadAllSecondaryResults :
       LET rows == mergeSources(secondaryRows(r), arr1[p]) IN
       /\ CACHE' = Rows(rows)
       /\ LAST' = Stamp(t0[p], now)
       /\ cacheSrc' = t0[p]
       /\ ret' = [kind |-> "rows", by |-> p, rows |-> rows, built |-> TRUE,
                  age |-> now - t0[p], err |-> "none"]
  /\ pc' = [pc EXCEPT ![p] = "idle"]
  /\ t0' = [t0 EXCEPT ![p] = 0]
  /\ arr1' = [arr1 EXCEPT ![p] = <<>>]
  /\ UNCHANGED now

-----------------------------------------------------------------------------
(* Initial values of the parts a specification leaves alone *)

Pending == [ok |-> FALSE, body |-> NoBody, attempts |-> <<>>, waits |-> <<>>,
            err |-> "pending"]
NoScript == [i \in 1..ScriptLen |-> Failure("transport")]

FetchIdle == fscript = NoScript /\ fres = Pending

-----------------------------------------------------------------------------
(* SpecFetch: one fetchJSON call against a scripted network *)

InitFetchOnly == fscript \in Scripts(PrimaryDocs) /\ fres = Pending

CallFetchJSON ==
  /\ fres = Pending
  /\ fres' = fetchJSON(fscript)
  /\ UNCHANGED fscript

Pow2(n) == IF n = 0 THEN 1 ELSE IF n = 1 THEN 2 ELSE IF n = 2 THEN 4
           ELSE IF n = 3 THEN 8 ELSE IF n = 4 THEN 16 ELSE 32

FetchDone == fres.err # "pending"

(* C5: a fetch makes at most 4 attempts, returns the body of the first
   attempt that yields a parsed body and stops there, fails only after 4
   failed attempts, and waits 200 * 2^(k-1) ms after the k-th failed attempt *)
C5_RetryPolicy ==
  FetchDone =>
    LET n == Len(fres.attempts) IN
    /\ n <= 4
    /\ n >= 1
    /\ \A k \in 1..n : fres.attempts[k] = fscript[k].kind
    /\ fres.ok =>
         /\ fscript[n].kind = "ok"
         /\ \A k \in 1..(n - 1) : fscript[k].kind # "ok"
         /\ fres.body = fscript[n].body
         /\ Len(fres.waits) = n - 1
    /\ ~fres.ok =>
         /\ n = 4
         /\ \A k \in 1..4 : fscript[k].kind # "ok"
         /\ Len(fres.waits) = 4
    /\ \A k \in 1..Len(fres.waits) : fres.waits[k] = 200 * Pow2(k - 1)

C5_Witness ==
  /\ FetchDone /\ fres.ok
  /\ Len(fres.attempts) = 4
  /\ fres.waits = <<200, 400, 800>>

(* C6 as claimed: an attempt whose body fails to parse ends the fetch at once
   with a failure, and no attempt follows it *)
C6_ParseFailureTerminal ==
  FetchDone =>
    \A k \in 1..Len(fres.attempts) :
      fres.attempts[k] = "badjson" => (k = Len(fres.attempts) /\ ~fres.ok)

(* C6 amended: a parse failure is handled like any other failed attempt: the
   fetcher waits the k-th delay and, while attempts remain, tries again; the
   fetch fails only after 4 failed attempts *)
C6_ParseFailureRetried ==
  FetchDone =>
    /\ \A k \in 1..Len(fres.attempts) :
         fres.attempts[k] = "badjson" =>
           /\ Len(fres.waits) >= k
           /\ fres.waits[k] = 200 * Pow2(k - 1)
           /\ (k < 4 => Len(fres.attempts) > k)
    /\ ~fres.ok => Len(fres.attempts) = 4

C6_Witness ==
  /\ FetchDone /\ fres.ok
  /\ Len(fres.attempts) = 2
  /\ fres.attempts[1] = "badjson"


-----------------------------------------------------------------------------
(* Index cache in the external key-value tier: loadIndex, kvGet, kvSet.
   The store keeps one slot with an expiry; a kvSet is sent and not awaited. *)

TTL_SEC == 3600
MaxKvCalls == 3
MaxKvTicks == 3

NoSlot == [null |-> TRUE, rows |-> <<>>, exp |-> 0]

NoKvReturn == [kind |-> "none", rows |-> <<>>, built |-> FALSE, err |-> "none",
               kvFailed |-> FALSE, hadPrev |-> FALSE, sincePrev |-> 0,
               prevRows |-> <<>>]
NoHist == [calls |-> 0, callAt |-> 0, kvFailed |-> FALSE, hasPrev |-> FALSE,
           prevAt |-> 0, prevRows |-> <<>>]

KvIdle ==
  /\ kvConf = FALSE /\ kvStore = NoSlot /\ kvFlight = EmptyBag
  /\ kpc = "idle" /\ karr1 = <<>> /\ kret = NoKvReturn /\ khist = NoHist

\* how the store's answer to GET /get/<key> can end in kvGet:
\*   transport  fetch() rejects               (not caught: kvGet rejects)
\*   status     !r.ok                         -> null
\*   badbody    r.json() rejects              (not caught: kvGet rejects)
\*   nostring   j.result is not a string      -> null
\*   badresult  JSON.parse(j.result) throws   -> null
\*   value      JSON.parse(j.result)          -> the stored rows
KvGetFailures == {"transport", "status", "badbody", "badresult"}
KvGetThrows(o) == o \in {"transport", "badbody"}

KvReturn(kind, rows, built, err) ==
  [kind |-> kind, rows |-> rows, built |-> built, err |-> err,
   kvFailed |-> khist.kvFailed, hadPrev |-> khist.hasPrev,
   sincePrev |-> khist.callAt - khist.prevAt, prevRows |-> khist.prevRows]

\* loadIndex is called: kvGet returns null at once when the tier is not
\* configured, else it awaits the store
LoadIndexBegin ==
  /\ kpc = "idle"
  /\ khist.calls < MaxKvCalls
  /\ kpc' = IF kvConf THEN "kvget" ELSE "fetch1"
  /\ khist' = [khist EXCEPT !.calls = khist.calls + 1, !.callAt = now,
                            !.kvFailed = FALSE]
  /\ UNCHANGED <<now, kvConf, kvStore, kvFlight, karr1, kret>>

\* const cached = await kvGet(); if (cached && cached.length) return cached;
LoadIndexKvGet ==
  /\ kpc = "kvget"
  /\ \/ \E o \in KvGetFailures :
          IF KvGetThrows(o)
            THEN /\ kret' = [KvReturn("error", <<>>, FALSE, o) EXCEPT !.kvFailed = TRUE]
                 /\ kpc' = "idle"
                 /\ khist' = [khist EXCEPT !.kvFailed = TRUE]
            ELSE /\ kpc' = "fetch1"
                 /\ khist' = [khist EXCEPT !.kvFailed = TRUE]
                 /\ UNCHANGED kret
     \/ /\ kvStore.null \/ now >= kvStore.exp
        /\ kpc' = "fetch1"
        /\ UNCHANGED <<kret, khist>>
     \/ /\ ~kvStore.null /\ now < kvStore.exp
        /\ IF Len(kvStore.rows) > 0
             THEN /\ kret' = KvReturn("rows", kvStore.rows, FALSE, "none")
                  /\ kpc' = "idle"
             ELSE /\ kpc' = "fetch1"
                  /\ UNCHANGED kret
        /\ UNCHANGED khist
  /\ UNCHANGED <<now, kvConf, kvStore, kvFlight, karr1>>

\* j1 = await fetchJSON(primary): a failure propagates out of loadIndex
LoadIndexPrimary ==
  /\ kpc = "fetch1"
  /\ \E r \in PrimaryResults :
       IF r.ok
         THEN /\ karr1' = mapRows(r.body.rows)
              /\ kpc' = "fetch2"
              /\ UNCHANGED kret
         ELSE /\ kret' = KvReturn("error", <<>>, TRUE, r.err)
              /\ kpc' = "idle"
              /\ UNCHANGED karr1
  /\ UNCHANGED <<now, kvConf, kvStore, kvFlight, khist>>

\* j2 in try/catch, the merge, kvSet(rows) sent without awaiting it, return
LoadIndexSecondary ==
  /\ kpc = "fetch2"
  /\ \E r \in SecondaryResults :
       LET rows == mergeSources(secondaryRows(r), karr1) IN
       /\ kvFlight' = IF kvConf THEN kvFlight (+) SetToBag({rows}) ELSE kvFlight
       /\ kret' = KvReturn("rows", rows, TRUE, "none")
       /\ khist' = [khist EXCEPT !.hasPrev = TRUE, !.prevAt = khist.callAt,
                                 !.prevRows = rows]
  /\ kpc' = "idle"
  /\ karr1' = <<>>
  /\ UNCHANGED <<now, kvConf, kvStore>>

\* the store serves a kvSet: set(key, value, EX TTL_SEC)
KvSetServed ==
  /\ \E rows \in BagToSet(kvFlight) :
       /\ kvStore' = [null |-> FALSE, rows |-> rows, exp |-> now + TTL_SEC * 1000]
       /\ kvFlight' = kvFlight (-) SetToBag({rows})
  /\ UNCHANGED <<now, kvConf, kpc, karr1, kret, khist>>

\* a kvSet fails (transport error or refusal): .catch(() => {}) drops it
KvSetLost ==
  /\ \E rows \in BagToSet(kvFlight) : kvFlight' = kvFlight (-) SetToBag({rows})
  /\ UNCHANGED <<now, kvConf, kvStore, kpc, karr1, kret, khist>>

KvTick ==
  /\ now < MaxKvTicks * TickMs
  /\ now' = now + TickMs
  /\ UNCHANGED <<kvConf, kvStore, kvFlight, kpc, karr1, kret, khist>>

-----------------------------------------------------------------------------
(* Resolver: GET of the lookup route, and resolveCIK of the page *)

NoRow == [ticker |-> <<>>, cik |-> <<>>, name |-> <<>>]
NoHit == [via |-> "none", status |-> 0, row |-> NoRow, cik |-> <<>>, err |-> "none"]

Range(xs) == {xs[i] : i \in 1..Len(xs)}

\* Array.prototype.find, given the predicate's value on each element: the
\* index of the first element satisfying it, or 0
find(holds) ==
  IF \E i \in 1..Len(holds) : holds[i]
    THEN CHOOSE i \in 1..Len(holds) : holds[i] /\ \A j \in 1..(i - 1) : ~holds[j]
    ELSE 0

\* /^\d{1,10}$/.test(q)
isNumericQuery_TenOnly(qq) == Len(qq) = 10 /\ \A i \in 1..Len(qq) : IsDigit(qq[i])
isNumericQuery(qq) == Len(qq) \in 1..10 /\ \A i \in 1..Len(qq) : IsDigit(qq[i])

\* list.find((r) => r.cik === cik)
cikHit(rows, cik) == find([i \in 1..Len(rows) |-> rows[i].cik = cik])

\* list.find((x) => norms(x.ticker).map(plain).some((v) => qPlainSet.has(v)))
tickerHit_Exact(rows, Q) == find([i \in 1..Len(rows) |-> rows[i].ticker = Q])
tickerHit(rows, Q) ==
  LET qPlainSet == {plainKey(v) : v \in Range(norms(Q))}
  IN find([i \in 1..Len(rows) |->
            \E v \in Range(norms(rows[i].ticker)) : plainKey(v) \in qPlainSet])

\* list.find((x) => x.name.toUpperCase().startsWith(Q))
nameStartsHit_Includes(rows, Q) ==
  find([i \in 1..Len(rows) |-> includes(toUpperCase(rows[i].name), Q)])
nameStartsHit(rows, Q) ==
  find([i \in 1..Len(rows) |-> startsWith(toUpperCase(rows[i].name), Q)])

\* list.find((x) => x.name.toUpperCase().includes(Q))
nameIncludesHit(rows, Q) ==
  find([i \in 1..Len(rows) |-> includes(toUpperCase(rows[i].name), Q)])

Found(via, row) == [via |-> via, status |-> 200, row |-> row, cik |-> row.cik, err |-> "none"]
Failed(via, status, err) == [via |-> via, status |-> status, row |-> NoRow, cik |-> <<>>, err |-> err]

\* the body of GET after `list` is loaded
resolve(rows, symbol) ==
  LET qq == trim(symbol) IN
  IF qq = <<>> THEN Failed("route", 400, "empty_query")
  ELSE
    LET h0 == IF isNumericQuery(qq) THEN cikHit(rows, pad10(qq)) ELSE 0 IN
    IF h0 > 0 THEN Found("route", rows[h0])
    ELSE
      LET Q == toUpperCase(qq)
          h1 == tickerHit(rows, Q)
          h2 == IF h1 > 0 THEN h1 ELSE nameStartsHit(rows, Q)
          h3 == IF h2 > 0 THEN h2 ELSE nameIncludesHit(rows, Q)
      IN IF h3 > 0 THEN Found("route", rows[h3])
         ELSE Failed("route", 404, "not_found")

\* the index of the lookup route for given ends of its two fetchJSON calls:
\* the primary's failure propagates, the secondary's is caught
buildIndex(o1, o2) ==
  LET r1 == fetchJSON([i \in 1..ScriptLen |-> o1])
      r2 == fetchJSON([i \in 1..ScriptLen |-> o2])
  IN IF r1.ok
       THEN [ok |-> TRUE, err |-> "none",
             rows |-> mergeSources(secondaryRows(r2), mapRows(r1.body.rows))]
       ELSE [ok |-> FALSE, err |-> r1.err, rows |-> <<>>]

\* loadAll of the suggest route: both documents are fetched once, with no
\* try block; only a non-success status of the secondary leaves arr2 empty
suggestBuild(o1, o2) ==
  IF o1.kind # "ok" THEN [ok |-> FALSE, err |-> o1.kind, rows |-> <<>>]
  ELSE IF o2.kind \in {"transport", "badjson"}
    THEN [ok |-> FALSE, err |-> o2.kind, rows |-> <<>>]
  ELSE IF o2.kind = "ok" /\ ~o2.body.isArray
    THEN [ok |-> FALSE, err |-> "not_iterable", rows |-> <<>>]
  ELSE [ok |-> TRUE, err |-> "none",
        rows |-> mergeSources(IF o2.kind = "ok" THEN mapRows(o2.body.rows) ELSE <<>>,
                              mapRows(o1.body.rows))]

\* data/tickerMap.json of the page
tickerMap == { [ticker |-> <<"A", ".", "B">>,
                cik |-> <<"0", "0", "0", "0", "0", "0", "0", "0", "0", "7">>] }

NoCik == <<>>

\* resolveCIKLocalOrNumeric: null is NoCik
resolveCIKLocalOrNumeric(value) ==
  LET v == toUpperCase(trim(value)) IN
  IF v = <<>> THEN NoCik
  ELSE IF Len(v) = 10 /\ \A i \in 1..Len(v) : IsDigit(v[i]) THEN v
  ELSE IF Len(v) \in 1..9 /\ \A i \in 1..Len(v) : IsDigit(v[i]) THEN padStart(v, 10, "0")
  ELSE IF \E e \in tickerMap : e.ticker = v
    THEN (CHOOSE e \in tickerMap : e.ticker = v).cik
  ELSE NoCik

\* upstream data of the lookup specification
RawPool ==
  { RawRow(<<"a", ".", "b">>, <<"1">>, <<"B", "a">>),
    RawRow(<<"A", "-", "B">>, <<"2">>, <<"a", "b">>),
    RawRow(<<"B">>, <<"1", "2">>, <<"C", "a", "b">>),
    RawRow(<<"1", ".", "2">>, <<"3">>, <<"A">>),
    RawRow(<<"C">>, <<"0", "0", "0", "0", "0", "0", "0", "0", "1", "2">>, <<"a", "B", "c">>) }

MaxPrimaryRows == 2
MaxSecondaryRows == 1

RECURSIVE SeqsUpTo(_, _)
SeqsUpTo(S, n) ==
  IF n = 0 THEN {<<>>}
  ELSE LET shorter == SeqsUpTo(S, n - 1)
       IN shorter \cup {Append(xs, x) : xs \in shorter, x \in S}

PrimaryInputs ==
  {Success(Doc(FALSE, rows)) : rows \in SeqsUpTo(RawPool, MaxPrimaryRows)}
    \cup {Failure(k) : k \in FailKinds}
SecondaryInputs ==
  {Success(Doc(TRUE, rows)) : rows \in SeqsUpTo(RawPool, MaxSecondaryRows)}
    \cup {Success(Doc(FALSE, <<>>))}
    \cup {Failure(k) : k \in FailKinds}

Queries ==
  { <<"A", ".", "B">>, <<"a", "-", "b">>, <<"A", "B">>, <<"a", "b">>,
    <<"B">>, <<"b", "A">>, <<"A">>, <<"c">>, <<" ", "C", " ">>,
    <<"1", ".", "2">>, <<"1", "-", "2">>, <<"1", "2">>, <<"1">>, <<"3">>,
    <<"0", "0", "0", "0", "0", "0", "0", "0", "1", "2">>,
    <<"0", "0", "0", "0", "0", "0", "0", "0", "0", "1", "2">>,
    <<" ">> }

NoDoc == Doc(FALSE, <<>>)

LookupIdle ==
  /\ up1 = Success(NoDoc) /\ up2 = Success(NoDoc) /\ list = <<>>
  /\ q = <<>> /\ hit = NoHit /\ lpc = "idle"

InitLookupOnly ==
  /\ up1 \in PrimaryInputs /\ up2 \in SecondaryInputs
  /\ list = <<>> /\ q = <<>> /\ hit = NoHit /\ lpc = "idle"

\* GET /api/lookup/<symbol>: load the index, then resolve; any throw is a 500
LookupGET ==
  /\ lpc = "idle"
  /\ \E symbol \in Queries :
       LET b == buildIndex(up1, up2) IN
       /\ q' = symbol
       /\ list' = b.rows
       /\ hit' = IF b.ok THEN resolve(b.rows, symbol) ELSE Failed("route", 500, b.err)
  /\ lpc' = "done"
  /\ UNCHANGED <<up1, up2>>

\* resolveCIK of the page: the local answer if any, else the lookup route's
PageResolveCIK ==
  /\ lpc = "idle"
  /\ \E value \in Queries :
       LET local == resolveCIKLocalOrNumeric(value)
           b == buildIndex(up1, up2)
           r == IF b.ok THEN resolve(b.rows, value) ELSE Failed("route", 500, b.err)
       IN /\ q' = value
          /\ list' = IF local # NoCik THEN <<>> ELSE b.rows
          /\ hit' = IF local # NoCik
                      THEN [via |-> "page", status |-> 0, row |-> NoRow,
                            cik |-> local, err |-> "none"]
                      ELSE [r EXCEPT !.via = "page"]
  /\ lpc' = "done"
  /\ UNCHANGED <<up1, up2>>

\* loadAll of the suggest route, the cache empty
SuggestLoadAll ==
  /\ lpc = "idle"
  /\ LET b == suggestBuild(up1, up2) IN
       /\ list' = b.rows
       /\ hit' = IF b.ok THEN [via |-> "suggest", status |-> 200, row |-> NoRow,
                               cik |-> <<>>, err |-> "none"]
                 ELSE Failed("suggest", 500, b.err)
  /\ lpc' = "done"
  /\ UNCHANGED <<up1, up2, q>>

-----------------------------------------------------------------------------
(* Suggest route: scoreRow and the three revisions of GET *)

\* a JavaScript number as far as the limit needs it: NaN or an integer
NaN == [nan |-> TRUE, n |-> 0]
Num(n) == [nan |-> FALSE, n |-> n]

DigitSeq == <<"0", "1", "2", "3", "4", "5", "6", "7", "8", "9">>
DigitVal(c) == (CHOOSE i \in 1..Len(DigitSeq) : DigitSeq[i] = c) - 1

RECURSIVE digitsValue(_)
digitsValue(s) ==
  IF s = <<>> THEN 0
  ELSE 10 * digitsValue(SubSeq(s, 1, Len(s) - 1)) + DigitVal(s[Len(s)])

\* Number(text) for a text of blanks, a sign and decimal digits; any other
\* text is NaN (fractions, exponents and radix prefixes are not drawn)
Number(text) ==
  LET t == trim(text)
      signed == t # <<>> /\ Head(t) \in {"-", "+"}
      body == IF signed THEN Tail(t) ELSE t
  IN IF t = <<>> THEN Num(0)
     ELSE IF body # <<>> /\ \A i \in 1..Len(body) : IsDigit(body[i])
       THEN Num(IF signed /\ Head(t) = "-" THEN 0 - digitsValue(body) ELSE digitsValue(body))
     ELSE NaN

\* Math.max, Math.min: NaN if either argument is
MathMax(a, b) == IF a.nan \/ b.nan THEN NaN ELSE IF a.n >= b.n THEN a ELSE b
MathMin(a, b) == IF a.nan \/ b.nan THEN NaN ELSE IF a.n <= b.n THEN a ELSE b

\* url.searchParams.get(name): null when the parameter is absent
NoParam == [present |-> FALSE, text |-> <<>>]
Param(text) == [present |-> TRUE, text |-> text]

\* Math.min(hi, Math.max(lo, Number(get("limit") || dflt)))
limitOf(param, lo, hi, dflt) ==
  MathMin(Num(hi), MathMax(Num(lo),
    IF param.present /\ param.text # <<>> THEN Number(param.text) ELSE Num(dflt)))

\* app/api/suggest/route.ts
SuggestMinLimit == 3
SuggestMaxLimit == 12
SuggestDefaultLimit == 8
\* the revision with the one-letter path
StartsMinLimit == 10
StartsMaxLimit == 100
StartsDefaultLimit == 50
\* the revision that answers 200 on failure
WideMinLimit == 10
WideMaxLimit == 300
WideDefaultLimit == 100

\* xs.slice(0, end): a NaN end is 0, a negative one counts from the end
slice(xs, end) ==
  LET e == IF end.nan THEN 0
           ELSE IF end.n < 0 THEN (IF Len(xs) + end.n < 0 THEN 0 ELSE Len(xs) + end.n)
           ELSE IF end.n > Len(xs) THEN Len(xs) ELSE end.n
  IN SubSeq(xs, 1, e)

scoreRow_NoPrefixTier(qq, row) ==
  LET Q == trim(toUpperCase(qq))
      key == plainKey(trim(toUpperCase(row.ticker)))
      nameU == toUpperCase(row.name)
  IN IF key = plainKey(Q) THEN 100
     ELSE IF includes(key, plainKey(Q)) THEN 75
     ELSE IF startsWith(nameU, Q) THEN 65
     ELSE IF includes(nameU, Q) THEN 50
     ELSE 0

scoreRow(qq, row) ==
  LET Q == trim(toUpperCase(qq))
      qPlain == plainKey(Q)
      ns == norms(row.ticker)
      tickerVariants == [i \in 1..Len(ns) |-> plainKey(ns[i])]
      nameU == toUpperCase(row.name)
  IN IF \E i \in 1..Len(tickerVariants) : tickerVariants[i] = qPlain THEN 100
     ELSE IF \E i \in 1..Len(tickerVariants) : startsWith(tickerVariants[i], qPlain) THEN 90
     ELSE IF \E i \in 1..Len(tickerVariants) : includes(tickerVariants[i], qPlain) THEN 75
     ELSE IF startsWith(nameU, Q) THEN 65
     ELSE IF includes(nameU, Q) THEN 50
     ELSE 0

\* Array.prototype.sort((a, b) => b.s - a.s): stable, descending by s
RECURSIVE insertByScore_TiesFirst(_, _)
insertByScore_TiesFirst(acc, x) ==
  IF acc = <<>> THEN <<x>>
  ELSE IF Head(acc).s > x.s THEN <<Head(acc)>> \o insertByScore_TiesFirst(Tail(acc), x)
  ELSE <<x>> \o acc
RECURSIVE insertByScore(_, _)
insertByScore(acc, x) ==
  IF acc = <<>> THEN <<x>>
  ELSE IF Head(acc).s >= x.s THEN <<Head(acc)>> \o insertByScore(Tail(acc), x)
  ELSE <<x>> \o acc

RECURSIVE sortByScore(_)
sortByScore(xs) ==
  IF xs = <<>> THEN <<>>
  ELSE insertByScore(sortByScore(SubSeq(xs, 1, Len(xs) - 1)), xs[Len(xs)])

\* collation order of the characters a symbol is made of
Collation == <<" ", "-", ".", "0", "1", "2", "3", "4", "5", "6", "7", "8", "9",
               "A", "B", "C", "D", "E", "H", "I", "K", "L", "M", "N", "O",
               "S", "T", "X">>
CharRank(c) == CHOOSE i \in 1..Len(Collation) : Collation[i] = c

\* String.prototype.localeCompare on upper-cased symbols: -1, 0 or 1
RECURSIVE localeCompare(_, _)
localeCompare(a, b) ==
  IF a = <<>> THEN (IF b = <<>> THEN 0 ELSE 0 - 1)
  ELSE IF b = <<>> THEN 1
  ELSE IF CharRank(Head(a)) < CharRank(Head(b)) THEN 0 - 1
  ELSE IF CharRank(Head(a)) > CharRank(Head(b)) THEN 1
  ELSE localeCompare(Tail(a), Tail(b))

\* Array.prototype.sort((a, b) => a.ticker.localeCompare(b.ticker)): stable
RECURSIVE insertByTicker(_, _)
insertByTicker(acc, x) ==
  IF acc = <<>> THEN <<x>>
  ELSE IF localeCompare(Head(acc).ticker, x.ticker) <= 0
    THEN <<Head(acc)>> \o insertByTicker(Tail(acc), x)
  ELSE <<x>> \o acc

RECURSIVE sortByTicker(_)
sortByTicker(xs) ==
  IF xs = <<>> THEN <<>>
  ELSE insertByTicker(sortByTicker(SubSeq(xs, 1, Len(xs) - 1)), xs[Len(xs)])

\* list.map(score).filter(s > 0).sort(by s).slice(0, limit).map(row)
scored(rows, qq, limit) ==
  LET withScore == [i \in 1..Len(rows) |-> [row |-> rows[i], s |-> scoreRow(qq, rows[i])]]
      kept == SelectSeq(withScore, LAMBDA x : x.s > 0)
      cut == slice(sortByScore(kept), limit)
  IN [i \in 1..Len(cut) |-> cut[i].row]

StartsWithLetter_Includes(r, Q) == includes(r.ticker, Q) \/ includes(toUpperCase(r.name), Q)
StartsWithLetter(r, Q) == startsWith(r.ticker, Q) \/ startsWith(toUpperCase(r.name), Q)

\* list.filter(starts with Q).sort(by ticker).slice(0, limit)
starts(rows, Q, limit) ==
  slice(sortByTicker(SelectSeq(rows, LAMBDA r : StartsWithLetter(r, Q))), limit)

\* loadAll of the last revision: the secondary fetch, its parse and the loop
\* over its body are in a try block whose catch keeps arr2 as it is
suggestBuildCaught(o1, o2) ==
  IF o1.kind # "ok" THEN [ok |-> FALSE, err |-> o1.kind, rows |-> <<>>]
  ELSE [ok |-> TRUE, err |-> "none",
        rows |-> mergeSources(IF o2.kind = "ok" /\ o2.body.isArray
                                THEN mapRows(o2.body.rows) ELSE <<>>,
                              mapRows(o1.body.rows))]

NoSuggest == [rev |-> "none", kind |-> "none", status |-> 0, rows |-> <<>>,
              index |-> <<>>, limit |-> Num(0)]
Results(rev, kind, status, rows, index, limit) ==
  [rev |-> rev, kind |-> kind, status |-> status, rows |-> rows,
   index |-> index, limit |-> limit]

SuggestIdle ==
  /\ sup1 = Success(NoDoc) /\ sup2 = Success(NoDoc)
  /\ sq = <<>> /\ slimit = NoParam /\ sres = NoSuggest

\* upstream data of the suggest specification
SuggestPool ==
  { RawRow(<<"a", "b">>, <<"1">>, <<"B", "a">>),
    RawRow(<<"A", "B", "C">>, <<"1", "2", "3", "4", "5", "6", "7", "8", "9", "0", "1">>, <<"C">>),
    RawRow(<<"C", "A", "B">>, <<>>, <<"a", "b">>),
    RawRow(<<"C">>, <<"C", "I", "K", "7">>, <<"A", "b", "c">>),
    RawRow(<<"B">>, <<"0", "0", "0", "0", "0", "0", "0", "0", "1", "2">>, <<"c", "a", "b">>) }

MaxSuggestRows == 4

\* the sequences of at most n distinct elements of S
RECURSIVE SeqsNoRep(_, _)
SeqsNoRep(S, n) ==
  IF n = 0 THEN {<<>>}
  ELSE LET shorter == SeqsNoRep(S, n - 1)
       IN shorter \cup UNION {{Append(xs, x) : x \in S \ Range(xs)} : xs \in shorter}

SuggestPrimaryInputs ==
  {Success(Doc(FALSE, rows)) : rows \in SeqsNoRep(SuggestPool, MaxSuggestRows)}
    \cup {Failure("status")}
SuggestSecondaryInputs ==
  { Success(Doc(TRUE, << RawRow(<<"A", ".", "B">>, <<"2">>, <<"x">>) >>)),
    Failure("transport") }

SuggestQueries ==
  { <<"A", "B">>, <<" ", "a", ".", "b">>, <<"B">>, <<"c">>, <<".", "-">>, <<" ">> }

LimitParams ==
  { NoParam, Param(<<"2">>), Param(<<"4", "0", "0">>), Param(<<"a", "b", "c">>) }

InitSuggestOnly ==
  /\ sup1 \in SuggestPrimaryInputs /\ sup2 \in SuggestSecondaryInputs
  /\ sq = <<>> /\ slimit = NoParam /\ sres = NoSuggest

\* GET /api/suggest?q=..&limit=.. of app/api/suggest/route.ts: every
\* non-blank query is scored; a throw of loadAll is a 500
SuggestGET ==
  /\ sres = NoSuggest
  /\ \E qq \in SuggestQueries, lim \in LimitParams :
       LET limit == limitOf(lim, SuggestMinLimit, SuggestMaxLimit, SuggestDefaultLimit)
           b == suggestBuild(sup1, sup2)
       IN /\ sq' = qq
          /\ slimit' = lim
          /\ sres' = IF trim(qq) = <<>>
                       THEN Results("r12", "empty", 200, <<>>, <<>>, limit)
                     ELSE IF ~b.ok
                       THEN Results("r12", "error", 500, <<>>, <<>>, limit)
                     ELSE Results("r12", "scored", 200, scored(b.rows, qq, limit),
                                  b.rows, limit)
  /\ UNCHANGED <<sup1, sup2>>

\* the revision with the one-letter path: a query of one character returns
\* the rows that start with it, by symbol; any other query is scored
SuggestStartsGET ==
  /\ sres = NoSuggest
  /\ \E qq \in SuggestQueries, lim \in LimitParams :
       LET qt == trim(qq)
           limit == limitOf(lim, StartsMinLimit, StartsMaxLimit, StartsDefaultLimit)
           b == suggestBuild(sup1, sup2)
           Q == toUpperCase(qt)
       IN /\ sq' = qq
          /\ slimit' = lim
          /\ sres' = IF qt = <<>>
                       THEN Results("r100", "empty", 200, <<>>, <<>>, limit)
                     ELSE IF ~b.ok
                       THEN Results("r100", "error", 500, <<>>, <<>>, limit)
                     ELSE IF Len(Q) = 1
                       THEN Results("r100", "starts", 200, starts(b.rows, Q, limit),
                                    b.rows, limit)
                     ELSE Results("r100", "scored", 200, scored(b.rows, qt, limit),
                                  b.rows, limit)
  /\ UNCHANGED <<sup1, sup2>>

\* the last revision: limit up to 300, the secondary fetch in a try block,
\* and a throw of loadAll answered 200 with no results
SuggestWideGET ==
  /\ sres = NoSuggest
  /\ \E qq \in SuggestQueries, lim \in LimitParams :
       LET qt == trim(qq)
           limit == limitOf(lim, WideMinLimit, WideMaxLimit, WideDefaultLimit)
           b == suggestBuildCaught(sup1, sup2)
           Q == toUpperCase(qt)
       IN /\ sq' = qq
          /\ slimit' = lim
          /\ sres' = IF qt = <<>>
                       THEN Results("r300", "empty", 200, <<>>, <<>>, limit)
                     ELSE IF ~b.ok
                       THEN Results("r300", "error", 200, <<>>, <<>>, limit)
                     ELSE IF Len(Q) = 1
                       THEN Results("r300", "starts", 200, starts(b.rows, Q, limit),
                                    b.rows, limit)
                     ELSE Results("r300", "scored", 200, scored(b.rows, qt, limit),
                                  b.rows, limit)
  /\ UNCHANGED <<sup1, sup2>>

-----------------------------------------------------------------------------
(* Filings route: isHtmlLike, detectItems, extractLargestAmount and GET *)

\* String.prototype.toLowerCase, one character
LowerChar(c) ==
  CASE c = "A" -> "a"
    [] c = "B" -> "b"
    [] c = "C" -> "c"
    [] c = "D" -> "d"
    [] c = "E" -> "e"
    [] c = "H" -> "h"
    [] c = "I" -> "i"
    [] c = "K" -> "k"
    [] c = "L" -> "l"
    [] c = "M" -> "m"
    [] c = "N" -> "n"
    [] c = "O" -> "o"
    [] c = "S" -> "s"
    [] c = "T" -> "t"
    [] c = "X" -> "x"
    [] OTHER -> c

toLowerCase(s) == [i \in 1..Len(s) |-> LowerChar(s[i])]

\* String.prototype.endsWith
endsWith(s, p) == Len(p) <= Len(s) /\ SubSeq(s, Len(s) - Len(p) + 1, Len(s)) = p

\* cik.padStart(10, "0"): no character is removed
zeroPadCIK(cik) == padStart(cik, CikWidth, "0")

isHtmlLike_Any(url) == TRUE

isHtmlLike(url) ==
  LET u == toLowerCase(url)
  IN \/ endsWith(u, <<".", "h", "t", "m">>)
     \/ endsWith(u, <<".", "h", "t", "m", "l">>)
     \/ endsWith(u, <<".", "t", "x", "t">>)

\* the character at position p of s, or "" past its end
At(s, p) == IF p >= 1 /\ p <= Len(s) THEN s[p] ELSE ""

IsSpace(c) == c = " "

\* raw.replace(/<[^>]+>/g, " "): a "<", one or more characters other than
\* ">", and a ">" become one blank
RECURSIVE stripTags(_)
stripTags(raw) ==
  IF raw = <<>> THEN <<>>
  ELSE IF Head(raw) = "<" /\ \E j \in 3..Len(raw) : raw[j] = ">" /\ raw[2] # ">"
    THEN LET j == CHOOSE k \in 3..Len(raw) :
                    raw[k] = ">" /\ \A l \in 2..(k - 1) : raw[l] # ">"
         IN <<" ">> \o stripTags(SubSeq(raw, j + 1, Len(raw)))
  ELSE <<Head(raw)>> \o stripTags(Tail(raw))

\* the number of blanks of s from position p on
RECURSIVE spacesFrom(_, _)
spacesFrom(s, p) == IF IsSpace(At(s, p)) THEN 1 + spacesFrom(s, p + 1) ELSE 0

\* /Item\s+\d{1,2}\.\d{2}/i tried at position p: the length matched, or 0
itemMatchLen(s, p) ==
  IF p + 3 > Len(s) THEN 0
  ELSE IF toUpperCase(SubSeq(s, p, p + 3)) # <<"I", "T", "E", "M">> THEN 0
  ELSE LET w == spacesFrom(s, p + 4)
           d == p + 4 + w
       IN IF w = 0 THEN 0
          ELSE IF IsDigit(At(s, d)) /\ IsDigit(At(s, d + 1)) /\ At(s, d + 2) = "."
                  /\ IsDigit(At(s, d + 3)) /\ IsDigit(At(s, d + 4))
            THEN d + 5 - p
          ELSE IF IsDigit(At(s, d)) /\ At(s, d + 1) = "."
                  /\ IsDigit(At(s, d + 2)) /\ IsDigit(At(s, d + 3))
            THEN d + 4 - p
          ELSE 0

\* text.match(/.../gi) || []: the matches from position p on, left to right
RECURSIVE matchItems(_, _)
matchItems(s, p) ==
  IF p > Len(s) THEN <<>>
  ELSE LET n == itemMatchLen(s, p)
       IN IF n > 0 THEN <<SubSeq(s, p, p + n - 1)>> \o matchItems(s, p + n)
          ELSE matchItems(s, p + 1)

Item101 == <<"i", "t", "e", "m", " ", "1", ".", "0", "1">>
Item502 == <<"i", "t", "e", "m", " ", "5", ".", "0", "2">>
BadgeAgreement == "Material Agreement (Item 1.01)"
BadgeExecutive == "Executive Change (Item 5.02)"

\* Array.from(new Set(found)) drops exact duplicates and rewrites nothing;
\* the badges are looked up in the lower-cased items
detectItems(text) ==
  LET found == matchItems(text, 1)
      items == uniq(found)
      lower == {toLowerCase(items[i]) : i \in 1..Len(items)}
  IN [items |-> items,
      badges |-> (IF Item101 \in lower THEN <<BadgeAgreement>> ELSE <<>>)
                   \o (IF Item502 \in lower THEN <<BadgeExecutive>> ELSE <<>>)]

(* Numbers of the amount extractor.  A JavaScript number is an IEEE 754
   binary64 value.  A natural number of any size is kept as its limbs in
   base 2^15, the least significant first and the most significant not 0
   (zero is the empty sequence).  A finite number is m * 2^e with m either of
   53 bits, or of fewer bits with e = -1074 (zero and the subnormals). *)

Base == 2^15
MantissaBits == 53
MinExp == -1074
MaxExp == 971

RECURSIVE bigNorm(_)
bigNorm(x) ==
  IF x # <<>> /\ x[Len(x)] = 0 THEN bigNorm(SubSeq(x, 1, Len(x) - 1)) ELSE x

\* x * k + carry from limb i on, for k and carry below the base
RECURSIVE mulLoop(_, _, _, _)
mulLoop(x, k, i, carry) ==
  IF i > Len(x) THEN (IF carry = 0 THEN <<>> ELSE <<carry>>)
  ELSE LET t == x[i] * k + carry
       IN <<t % Base>> \o mulLoop(x, k, i + 1, t \div Base)

bigMulAdd(x, k, c) == bigNorm(mulLoop(x, k, 1, c))

\* the remainders of x divided by d, for d up to the base: the entry at i is
\* the remainder of the limbs from i up, and the last entry is 0
RECURSIVE divLoop(_, _, _)
divLoop(x, d, i) ==
  IF i > Len(x) THEN <<0>>
  ELSE LET rest == divLoop(x, d, i + 1)
       IN <<(rest[1] * Base + x[i]) % d>> \o rest

\* x divided by d, for d up to the base: quotient and remainder
bigDivSmall(x, d) ==
  LET rem == divLoop(x, d, 1)
  IN [q |-> bigNorm([i \in 1..Len(x) |-> (rem[i + 1] * Base + x[i]) \div d]),
      r |-> rem[1]]

RECURSIVE bitLen(_)
bitLen(n) == IF n = 0 THEN 0 ELSE 1 + bitLen(n \div 2)

bigBitLen(x) == IF x = <<>> THEN 0 ELSE 15 * (Len(x) - 1) + bitLen(x[Len(x)])

bigShiftLeft(x, n) ==
  IF x = <<>> THEN <<>>
  ELSE [i \in 1..(n \div 15) |-> 0] \o bigMulAdd(x, 2^(n % 15), 0)

\* x divided by 2^n: the quotient, and whether a 1 bit was shifted out
bigShiftRight(x, n) ==
  LET w == IF n \div 15 > Len(x) THEN Len(x) ELSE n \div 15
      d == bigDivSmall(SubSeq(x, w + 1, Len(x)), 2^(n % 15))
  IN [q |-> d.q, sticky |-> d.r # 0 \/ \E i \in 1..w : x[i] # 0]

RECURSIVE bigInc(_)
bigInc(x) ==
  IF x = <<>> THEN <<1>>
  ELSE IF Head(x) + 1 < Base THEN <<Head(x) + 1>> \o Tail(x)
  ELSE <<0>> \o bigInc(Tail(x))

RECURSIVE greaterFrom(_, _, _)
greaterFrom(a, b, i) ==
  IF i = 0 THEN FALSE
  ELSE IF a[i] # b[i] THEN a[i] > b[i]
  ELSE greaterFrom(a, b, i - 1)

bigGreater(a, b) ==
  Len(a) > Len(b) \/ (Len(a) = Len(b) /\ greaterFrom(a, b, Len(a)))

\* the decimal digits ds read as a natural number
RECURSIVE bigFromDigits(_, _, _)
bigFromDigits(ds, i, acc) ==
  IF i > Len(ds) THEN acc
  ELSE LET next == bigMulAdd(acc, 10, DigitVal(ds[i]))
       IN IF next = <<>> THEN bigFromDigits(ds, i + 1, <<>>)
          ELSE bigFromDigits(ds, i + 1, next)

\* x divided by 10^k, four digits at a time: the quotient, and whether
\* there was a remainder
RECURSIVE divPow10(_, _, _)
divPow10(x, k, sticky) ==
  IF x = <<>> \/ k = 0 THEN [q |-> x, sticky |-> sticky]
  ELSE LET step == IF k > 4 THEN 4 ELSE k
           d == bigDivSmall(x, 10^step)
       IN IF d.r # 0 THEN divPow10(d.q, k - step, TRUE)
          ELSE divPow10(d.q, k - step, sticky)

\* a number; null is NoAmount
NoAmount == [set |-> FALSE, fin |-> TRUE, m |-> <<>>, e |-> 0]
Double(m, e) == [set |-> TRUE, fin |-> TRUE, m |-> m, e |-> e]
Zero == Double(<<>>, MinExp)
Infinity == [set |-> TRUE, fin |-> FALSE, m |-> <<>>, e |-> 0]

finish(m, e) ==
  IF m = <<>> THEN Zero ELSE IF e > MaxExp THEN Infinity ELSE Double(m, e)

\* the binary64 value nearest to (n + f) * 2^e, ties to the even mantissa,
\* where 0 <= f < 1 and f > 0 exactly if sticky
roundToDouble(n, e, sticky) ==
  IF n = <<>> THEN Zero
  ELSE
    LET len == bigBitLen(n)
        drop == IF len - MantissaBits > MinExp - e THEN len - MantissaBits
                ELSE MinExp - e
    IN IF drop <= 0 THEN finish(bigShiftLeft(n, 0 - drop), e + drop)
       ELSE LET sh == bigShiftRight(n, drop - 1)
                guard == sh.q # <<>> /\ sh.q[1] % 2 = 1
                m0 == bigDivSmall(sh.q, 2).q
                odd == m0 # <<>> /\ m0[1] % 2 = 1
                m1 == IF guard /\ (sh.sticky \/ sticky \/ odd) THEN bigInc(m0) ELSE m0
            IN IF bigBitLen(m1) > MantissaBits
                 THEN finish(bigDivSmall(m1, 2).q, e + drop + 1)
                 ELSE finish(m1, e + drop)

\* the number of digits of s from position p on
RECURSIVE digitsFrom(_, _)
digitsFrom(s, p) == IF IsDigit(At(s, p)) THEN 1 + digitsFrom(s, p + 1) ELSE 0

\* (?:,[0-9]{3})* from position e on: where it ends
RECURSIVE groupsEnd(_, _)
groupsEnd(s, e) ==
  IF At(s, e) = "," /\ IsDigit(At(s, e + 1)) /\ IsDigit(At(s, e + 2)) /\ IsDigit(At(s, e + 3))
    THEN groupsEnd(s, e + 4)
    ELSE e

\* (million|billion|m|bn)? at position u, case ignored: the unit and its length
unitAt(s, u) ==
  LET rest == toLowerCase(SubSeq(s, u, Len(s)))
  IN IF startsWith(rest, <<"m", "i", "l", "l", "i", "o", "n">>) THEN [unit |-> "million", len |-> 7]
     ELSE IF startsWith(rest, <<"b", "i", "l", "l", "i", "o", "n">>) THEN [unit |-> "billion", len |-> 7]
     ELSE IF startsWith(rest, <<"m">>) THEN [unit |-> "m", len |-> 1]
     ELSE IF startsWith(rest, <<"b", "n">>) THEN [unit |-> "bn", len |-> 2]
     ELSE [unit |-> "", len |-> 0]

NotComma(c) == c # ","

\* parseFloat of digits with an optional fraction: the nearest number
parseFloat(s) ==
  LET dot == IF \E i \in 1..Len(s) : s[i] = "."
               THEN CHOOSE i \in 1..Len(s) : s[i] = "." ELSE Len(s) + 1
      frac == SubSeq(s, dot + 1, Len(s))
      k == Len(frac)
      n == bigFromDigits(SubSeq(s, 1, dot - 1) \o frac, 1, <<>>)
      scale == 55 + 4 * k
      d == divPow10(bigShiftLeft(n, scale), k, FALSE)
  IN IF k = 0 THEN roundToDouble(n, 0, FALSE)
     ELSE roundToDouble(d.q, 0 - scale, d.sticky)

\* num * 10^9 = num * 5^9 * 2^9 and num * 10^6 = num * 5^6 * 2^6, rounded once
times(num, unit) ==
  IF ~num.fin THEN num
  ELSE IF unit \in {"billion", "bn"}
    THEN roundToDouble(bigMulAdd(bigMulAdd(num.m, 15625, 0), 125, 0), num.e + 9, FALSE)
  ELSE IF unit \in {"million", "m"}
    THEN roundToDouble(bigMulAdd(num.m, 15625, 0), num.e + 6, FALSE)
  ELSE num

\* num > max, for finite numbers
greater(a, b) == a.e > b.e \/ (a.e = b.e /\ bigGreater(a.m, b.m))

\* the amount pattern tried at position p: where group 1 starts, or 0.  The
\* optional "$" and the optional blank are given up in turn when no digit
\* follows
amountStart(s, p) ==
  IF At(s, p) = "$" /\ IsSpace(At(s, p + 1)) /\ IsDigit(At(s, p + 2)) THEN p + 2
  ELSE IF At(s, p) = "$" /\ IsDigit(At(s, p + 1)) THEN p + 1
  ELSE IF IsSpace(At(s, p)) /\ IsDigit(At(s, p + 1)) THEN p + 1
  ELSE IF IsDigit(At(s, p)) THEN p
  ELSE 0

\* one match from group 1's start d: its value and where the match ends
amountMatch(s, d) ==
  LET n1 == IF digitsFrom(s, d) > 3 THEN 3 ELSE digitsFrom(s, d)
      g == groupsEnd(s, d + n1)
      e == IF At(s, g) = "." /\ IsDigit(At(s, g + 1)) THEN g + 1 + digitsFrom(s, g + 1) ELSE g
      u == e + spacesFrom(s, e)
      unit == unitAt(s, u)
  IN [num |-> times(parseFloat(SelectSeq(SubSeq(s, d, e - 1), NotComma)), unit.unit),
      end |-> u + unit.len]

\* the exec loop from position p on, max so far given
RECURSIVE amountLoop(_, _, _)
amountLoop(s, p, max) ==
  IF p > Len(s) THEN max
  ELSE LET d == amountStart(s, p)
       IN IF d = 0 THEN amountLoop(s, p + 1, max)
          ELSE LET m == amountMatch(s, d)
               IN amountLoop(s, m.end,
                             IF ~m.num.fin THEN max
                             ELSE IF ~max.set \/ greater(m.num, max) THEN m.num
                             ELSE max)

extractLargestAmount(text) == amountLoop(text, 1, NoAmount)

\* one entry of the parallel arrays of filings.recent, with the answer of
\* the archive to a fetch of its primary document
Filing(form, primary, doc) == [form |-> form, primary |-> primary, doc |-> doc]
DocOk(text) == [kind |-> "ok", text |-> text]
DocFail(kind) == [kind |-> kind, text |-> <<>>]

MaxFilings == 12

EightK == <<"8", "-", "K">>
OfferingForms ==
  { <<"S", "-", "1">>, <<"4", "2", "4", "B", "1">>, <<"4", "2", "4", "B", "2">>,
    <<"4", "2", "4", "B", "3">>, <<"4", "2", "4", "B", "4">> }

\* `${base}/${primary}`, the base left out; null is the empty url
NoUrl == <<>>
primaryUrl(f) == IF f.primary = <<>> THEN NoUrl ELSE <<"/">> \o f.primary

\* whether the document is fetched at all
Fetched(f) == primaryUrl(f) # NoUrl /\ isHtmlLike(primaryUrl(f))

\* what leaves the try block around the document fetch: nothing, `catch {}`
DocThrows_Uncaught(f) == Fetched(f) /\ f.doc.kind \in {"transport", "badtext"}
DocThrows(f) == FALSE

IsPeriodicEvent(form) == startsWith(toUpperCase(form), EightK)
IsOffering(form) == toUpperCase(form) \in OfferingForms

\* the body of the loop over the recent filings: one output record
enrichOne(f) ==
  LET read == Fetched(f) /\ f.doc.kind = "ok"
      text == IF read THEN stripTags(f.doc.text) ELSE <<>>
      found == IF read /\ IsPeriodicEvent(f.form) THEN detectItems(text)
               ELSE [items |-> <<>>, badges |-> <<>>]
  IN [form |-> f.form,
      primary_doc_url |-> primaryUrl(f),
      items |-> found.items,
      badges |-> found.badges,
      amount_usd |-> IF read /\ IsOffering(f.form)
                       THEN extractLargestAmount(text) ELSE NoAmount]

\* for (let i = 0; i < n; i++) { ...; out.push(...) }
RECURSIVE filingsLoop(_, _, _, _)
filingsLoop(fs, i, n, out) ==
  IF i > n THEN [ok |-> TRUE, out |-> out]
  ELSE IF DocThrows(fs[i]) THEN [ok |-> FALSE, out |-> <<>>]
  ELSE filingsLoop(fs, i + 1, n, Append(out, enrichOne(fs[i])))

enrich_Unbounded(fs) == filingsLoop(fs, 1, Len(fs), <<>>)

\* n = Math.min(12, accessionNumber.length), then the loop
enrich(fs) ==
  filingsLoop(fs, 1, IF Len(fs) > MaxFilings THEN MaxFilings ELSE Len(fs), <<>>)

NoFilings == [kind |-> "none", status |-> 0, cik |-> <<>>, out |-> <<>>]
SubOk(fs) == [kind |-> "ok", filings |-> fs]
SubFail(kind) == [kind |-> kind, filings |-> <<>>]

FilingIdle == sub = SubOk(<<>>) /\ fout = NoFilings

\* document texts: fragments joined by one blank
Fragments ==
  { <<"I", "t", "e", "m", " ", "1", ".", "0", "1">>,
    <<"I", "T", "E", "M", " ", "1", ".", "0", "1">>,
    <<"i", "t", "e", "m", " ", " ", "1", ".", "0", "1">>,
    <<"I", "t", "e", "m", "<", "b", ">", "5", ".", "0", "2">>,
    <<"I", "t", "e", "m", " ", "1", "2", ".", "3", "4">>,
    <<"$", "1", "2", "0", "0", "0">>,
    <<"$", "1", ".", "0", "0", "5", " ", "m", "i", "l", "l", "i", "o", "n">>,
    <<"1", ",", "2", "0", "0", ".", "5">>,
    <<"2", ".", "1", "4", "7", " ", "b", "n">> }

MaxFragments == 2

RECURSIVE TextsUpTo(_)
TextsUpTo(n) ==
  IF n = 0 THEN {<<>>}
  ELSE LET shorter == TextsUpTo(n - 1)
       IN shorter \cup Fragments
            \cup {t \o <<" ">> \o f : t \in shorter \ {<<>>}, f \in Fragments}

Texts == TextsUpTo(MaxFragments)

SideText == <<"I", "t", "e", "m", " ", "1", ".", "0", "1", " ",
              "$", "5", " ", "m", "i", "l", "l", "i", "o", "n">>
\* "$2.5 million $10,000,000 $1 billion"
ExampleText == <<"$", "2", ".", "5", " ", "m", "i", "l", "l", "i", "o", "n", " ",
                 "$", "1", "0", ",", "0", "0", "0", ",", "0", "0", "0", " ",
                 "$", "1", " ", "b", "i", "l", "l", "i", "o", "n">>
HtmName == <<"a", ".", "h", "t", "m">>

DocOutcomes == {DocOk(t) : t \in Texts} \cup {DocFail("status"), DocFail("transport")}

FocusFilings ==
  {Filing(form, HtmName, d) : form \in {EightK, <<"S", "-", "1">>}, d \in DocOutcomes}

SideFilings ==
  { Filing(<<"8", "-", "k", "/", "A">>, <<"a", ".", "H", "T", "M">>, DocOk(SideText)),
    Filing(<<"1", "0", "-", "K">>, HtmName, DocOk(SideText)),
    Filing(<<"S", "-", "1", "/", "A">>, HtmName, DocOk(SideText)),
    Filing(<<"4", "2", "4", "B", "4">>, <<"a", ".", "t", "x", "t">>, DocOk(SideText)),
    Filing(EightK, <<"a", ".", "p", "d", "f">>, DocOk(SideText)),
    Filing(EightK, <<>>, DocOk(SideText)),
    Filing(EightK, <<"a", ".", "h", "t", "m", "l">>, DocFail("badtext")),
    Filing(<<"s", "-", "1">>, HtmName, DocOk(ExampleText)) }

Filler == Filing(<<"1", "0", "-", "Q">>, HtmName, DocOk(<<>>))

SubInputs ==
  {SubOk(<<f, g>> \o [i \in 1..k |-> Filler]) :
      f \in FocusFilings, g \in SideFilings, k \in {0, MaxFilings}}
    \cup {SubOk(<<>>), SubFail("status"), SubFail("transport"), SubFail("badjson")}

CikParams == { <<"3", "2", "0">>, <<"0", "0", "0", "0", "0", "0", "0", "0", "3", "2", "0">> }

InitFilingsOnly == sub \in SubInputs /\ fout = NoFilings

\* GET /api/filings/<cik>: a non-success status of the submissions fetch is
\* a 502, any throw a 500, else the enriched recent filings
FilingsGET ==
  /\ fout = NoFilings
  /\ \E cik \in CikParams :
       LET cik10 == zeroPadCIK(cik)
           e == enrich(sub.filings)
       IN fout' = IF sub.kind = "status"
                    THEN [kind |-> "error", status |-> 502, cik |-> cik10, out |-> <<>>]
                  ELSE IF sub.kind # "ok" \/ ~e.ok
                    THEN [kind |-> "error", status |-> 500, cik |-> cik10, out |-> <<>>]
                  ELSE [kind |-> "ok", status |-> 200, cik |-> cik10, out |-> e.out]
  /\ UNCHANGED sub

-----------------------------------------------------------------------------
(* The page (Home): the filings it shows and the suggestion dropdown.  A
   fetchFilingsFor call or a suggest request is suspended only at its
   awaits on the network; what runs between two awaits is one step.  The
   user's events (typing, keys, focus, blur, clicks) come in any order. *)

AAPL == <<"A", "A", "P", "L">>
MSFT == <<"M", "S", "F", "T">>
AMZN == <<"A", "M", "Z", "N">>
SAMPLE == {AAPL, MSFT, AMZN}
AppleCik == <<"0", "0", "0", "0", "3", "2", "0", "1", "9", "3">>

\* error: null, or a message
NoError == "null"
Unrecognized ==
  "Ticker/CIK not recognized. Try any ticker (TSLA, V, BRK.B), a company name (APPLE), or a 10-digit CIK."
FailedToFetch == "Failed to fetch filings"
FetchError == "Error fetching filings"

\* x || d for strings
OrElse(x, d) == IF x = "" THEN d ELSE x

\* how a request to /api/filings/<cik> ends: a parsed answer with its status
\* and its `error` field ("" when it has none), or a rejection of fetch() or
\* r.json() with a message
Answered(ok, err) == [kind |-> "answered", ok |-> ok, text |-> err]
Thrown(message) == [kind |-> "thrown", ok |-> FALSE, text |-> message]

\* the message of the error caught by fetchFilingsFor, as setError gets it:
\* new Error(j?.error || "Failed to fetch filings") for a non-success answer,
\* then e?.message || "Error fetching filings"
caughtMessage(a) ==
  IF a.kind = "answered"
    THEN OrElse(OrElse(a.text, FailedToFetch), FetchError)
    ELSE OrElse(a.text, FetchError)

\* one fetchFilingsFor call: where it is, its argument, the id it resolved
Call(stage, value, cik) == [stage |-> stage, value |-> value, cik |-> cik]
Ended(stage) == Call(stage, <<>>, NoCik)

\* filings: the list set by setFilings, with the call that set it
NoList == [by |-> 0, rows |-> <<>>]

\* one suggest request: its q and whether it is in flight, aborted or done
Req(qq, state) == [q |-> qq, state |-> state]
NoTimer == [set |-> FALSE, q |-> <<>>]
Timer(qq) == [set |-> TRUE, q |-> qq]

\* suggestions: the list set by setSuggestions, with the request that set it
\* and the number of requests issued by then
NoSuggestions == [by |-> 0, issued |-> 0, rows |-> <<>>]

\* activeIndex: -1 for no active entry
NoActive == -1

MaxCalls == 2
MaxSuggestReqs == 3

\* what the user types, what /api/lookup answers (j.cik or null), what
\* /api/filings and /api/suggest answer
Typed == {<<>>, <<"7">>}
Cik12 == <<"0", "0", "0", "0", "0", "0", "0", "0", "1", "2">>
LookupAnswers == {NoCik, Cik12}
FilingsAnswers ==
  { Answered(TRUE, ""), Answered(FALSE, "SEC fetch failed (503)"),
    Answered(FALSE, ""), Thrown("Failed to fetch"), Thrown("") }
Sug1 == [ticker |-> <<"A", ".", "B">>, cik |-> padStart(<<"7">>, 10, "0"), name |-> <<"A", "b">>]
Sug2 == [ticker |-> <<"C", "A", "B">>, cik |-> Cik12, name |-> <<"c", "a", "b">>]
SuggestAnswers ==
  { [ok |-> FALSE, rows |-> <<>>],
    [ok |-> TRUE, rows |-> <<>>],
    [ok |-> TRUE, rows |-> <<Sug1, Sug2>>] }
Keys == {"ArrowDown", "ArrowUp", "Enter", "Escape", "a"}

PageIdle ==
  /\ mounted = FALSE
  /\ input = AAPL /\ resolvedCik = AppleCik
  /\ filings = NoList /\ loading = FALSE /\ error = NoError
  /\ calls = <<>>
  /\ suggestions = NoSuggestions /\ showSuggest = FALSE /\ suggestLoading = FALSE
  /\ activeIndex = NoActive
  /\ abortRef = 0 /\ sugTimer = NoTimer /\ sugReqs = <<>> /\ blurTimeout = FALSE

\* fetchFilingsFor after `await resolveCIK(value)`: call i, resolved to cik
afterResolve(cs, i, cik) ==
  IF cik = NoCik
    THEN /\ error' = Unrecognized
         /\ calls' = [cs EXCEPT ![i] = Ended("unknown")]
         /\ UNCHANGED <<resolvedCik, loading>>
    ELSE /\ resolvedCik' = cik
         /\ loading' = TRUE
         /\ error' = NoError
         /\ calls' = [cs EXCEPT ![i] = Call("filings", <<>>, cik)]

\* fetchFilingsFor(value) up to its first await on the network: resolveCIK
\* answers from the local map or the digits, or asks /api/lookup
fetchFilingsFor(value) ==
  LET local == resolveCIKLocalOrNumeric(value)
      i == Len(calls) + 1
  IN IF local # NoCik
       THEN afterResolve(Append(calls, Call("resolve", value, NoCik)), i, local)
       ELSE /\ calls' = Append(calls, Call("lookup", value, NoCik))
            /\ UNCHANGED <<resolvedCik, loading, error>>

\* abortRef.current.abort(): the request of the current controller, if still
\* in flight, is rejected with AbortError
abort(reqs, ref) ==
  IF ref # 0 /\ reqs[ref].state = "flight"
    THEN [reqs EXCEPT ![ref] = Req(<<>>, "aborted")]
    ELSE reqs

\* the render after a handler that leaves the input v, showSuggest show and
\* activeIndex act: the suggestion effect and the cleanup of its previous
\* run, which happen only if the input changed
suggestEffect(v, show, act) ==
  IF v = input
    THEN /\ showSuggest' = show /\ activeIndex' = act
         /\ UNCHANGED <<sugTimer, sugReqs, suggestions, suggestLoading>>
  ELSE IF trim(v) = <<>>
    THEN /\ sugTimer' = NoTimer
         /\ sugReqs' = abort(sugReqs, abortRef)
         /\ suggestions' = NoSuggestions
         /\ suggestLoading' = FALSE
         /\ activeIndex' = NoActive
         /\ showSuggest' = FALSE
    ELSE /\ sugTimer' = Timer(trim(v))
         /\ showSuggest' = show /\ activeIndex' = act
         /\ UNCHANGED <<sugReqs, suggestions, suggestLoading>>

CanCall == mounted /\ Len(calls) < MaxCalls

\* the dropdown is rendered
DropdownOpen == showSuggest /\ (suggestions.rows # <<>> \/ suggestLoading)

\* the first render's effects: the suggestion effect for "AAPL" and the
\* initial load
Mount ==
  /\ ~mounted
  /\ mounted' = TRUE
  /\ sugTimer' = Timer(trim(input))
  /\ fetchFilingsFor(AAPL)
  /\ UNCHANGED <<input, filings, suggestions, showSuggest, suggestLoading,
                 activeIndex, abortRef, sugReqs, blurTimeout>>

\* onChange of the input box: setInput, setShowSuggest(true) for a non-blank
\* value
ChangeInput ==
  /\ mounted
  /\ \E v \in Typed \ {input} :
       /\ input' = v
       /\ suggestEffect(v, IF trim(v) # <<>> THEN TRUE ELSE showSuggest, activeIndex)
  /\ UNCHANGED <<mounted, resolvedCik, filings, loading, error, calls, abortRef,
                 blurTimeout>>

\* onFocus of the input box
InputFocus ==
  /\ mounted
  /\ showSuggest' = (IF trim(input) # <<>> THEN TRUE ELSE showSuggest)
  /\ UNCHANGED <<mounted, input, resolvedCik, filings, loading, error, calls,
                 suggestions, suggestLoading, activeIndex, abortRef, sugTimer,
                 sugReqs, blurTimeout>>

\* onInputBlur: the 120 ms timer is set anew
InputBlur ==
  /\ mounted
  /\ blurTimeout' = TRUE
  /\ UNCHANGED <<mounted, input, resolvedCik, filings, loading, error, calls,
                 suggestions, showSuggest, suggestLoading, activeIndex, abortRef,
                 sugTimer, sugReqs>>

\* the blur timer fires: setShowSuggest(false)
BlurTimerFires ==
  /\ blurTimeout
  /\ blurTimeout' = FALSE
  /\ showSuggest' = FALSE
  /\ UNCHANGED <<mounted, input, resolvedCik, filings, loading, error, calls,
                 suggestions, suggestLoading, activeIndex, abortRef, sugTimer,
                 sugReqs>>

\* the Fetch button, disabled while loading
ClickFetch ==
  /\ CanCall /\ ~loading
  /\ fetchFilingsFor(input)
  /\ UNCHANGED <<mounted, input, filings, suggestions, showSuggest,
                 suggestLoading, activeIndex, abortRef, sugTimer, sugReqs,
                 blurTimeout>>

\* setInterval(() => fetchFilingsFor(input), 60000)
AutoRefresh ==
  /\ CanCall
  /\ fetchFilingsFor(input)
  /\ UNCHANGED <<mounted, input, filings, suggestions, showSuggest,
                 suggestLoading, activeIndex, abortRef, sugTimer, sugReqs,
                 blurTimeout>>

\* a sample button: setInput(t); fetchFilingsFor(t)
ClickSample ==
  /\ CanCall
  /\ \E t \in SAMPLE :
       /\ input' = t
       /\ fetchFilingsFor(t)
       /\ suggestEffect(t, showSuggest, activeIndex)
  /\ UNCHANGED <<mounted, filings, abortRef, blurTimeout>>

\* onPickSuggestion(s): setInput, setShowSuggest(false), setActiveIndex(-1),
\* fetchFilingsFor(s.ticker)
onPickSuggestion(s) ==
  /\ input' = s.ticker
  /\ fetchFilingsFor(s.ticker)
  /\ suggestEffect(s.ticker, FALSE, NoActive)

\* a click on an entry of the open dropdown; the entries are rendered only
\* while no request is loading
PickSuggestion ==
  /\ CanCall /\ DropdownOpen /\ ~suggestLoading
  /\ \E k \in 1..Len(suggestions.rows) : onPickSuggestion(suggestions.rows[k])
  /\ UNCHANGED <<mounted, filings, abortRef, blurTimeout>>

\* onKeyDown, which returns at once unless the dropdown is open; activeIndex
\* counts from 0
KeyDown ==
  /\ mounted /\ DropdownOpen
  /\ \E key \in Keys :
       LET max == Len(suggestions.rows) - 1 IN
       CASE key = "ArrowDown" ->
              /\ activeIndex' = (IF max < 0 THEN NoActive
                                 ELSE IF activeIndex < max THEN activeIndex + 1 ELSE 0)
              /\ UNCHANGED <<input, resolvedCik, loading, error, calls, showSuggest,
                             sugTimer, sugReqs, suggestions, suggestLoading>>
         [] key = "ArrowUp" ->
              /\ activeIndex' = (IF max < 0 THEN NoActive
                                 ELSE IF activeIndex <= 0 THEN max ELSE activeIndex - 1)
              /\ UNCHANGED <<input, resolvedCik, loading, error, calls, showSuggest,
                             sugTimer, sugReqs, suggestions, suggestLoading>>
         [] key = "Enter" ->
              /\ Len(calls) < MaxCalls
              /\ IF activeIndex >= 0 /\ activeIndex < Len(suggestions.rows)
                   THEN onPickSuggestion(suggestions.rows[activeIndex + 1])
                   ELSE /\ fetchFilingsFor(input)
                        /\ UNCHANGED <<input, showSuggest, activeIndex, sugTimer,
                                       sugReqs, suggestions, suggestLoading>>
         [] key = "Escape" ->
              /\ showSuggest' = FALSE
              /\ activeIndex' = NoActive
              /\ UNCHANGED <<input, resolvedCik, loading, error, calls, sugTimer,
                             sugReqs, suggestions, suggestLoading>>
         [] OTHER ->
              UNCHANGED <<input, resolvedCik, loading, error, calls, showSuggest,
                          activeIndex, sugTimer, sugReqs, suggestions, suggestLoading>>
  /\ UNCHANGED <<mounted, filings, abortRef, blurTimeout>>

\* /api/lookup answers call i: j.cik, or null for a failure, a non-success
\* status or an answer without cik
LookupResponds ==
  /\ \E i \in 1..Len(calls) :
       /\ calls[i].stage = "lookup"
       /\ \E cik \in (IF trim(calls[i].value) = <<>> THEN {NoCik} ELSE LookupAnswers) :
            afterResolve(calls, i, cik)
  /\ UNCHANGED <<mounted, input, filings, suggestions, showSuggest,
                 suggestLoading, activeIndex, abortRef, sugTimer, sugReqs,
                 blurTimeout>>

\* /api/filings/<cik> answers call i: setFilings(j), or setError for a
\* failure; finally setLoading(false)
FilingsResponds ==
  /\ \E i \in 1..Len(calls) :
       /\ calls[i].stage = "filings"
       /\ \E a \in FilingsAnswers :
            IF a.ok
              THEN /\ filings' = [by |-> i, rows |-> <<[cik |-> calls[i].cik]>>]
                   /\ calls' = [calls EXCEPT ![i] = Ended("ok")]
                   /\ UNCHANGED error
              ELSE /\ error' = caughtMessage(a)
                   /\ calls' = [calls EXCEPT ![i] = Ended("failed")]
                   /\ UNCHANGED filings
  /\ loading' = FALSE
  /\ UNCHANGED <<mounted, input, resolvedCik, suggestions, showSuggest,
                 suggestLoading, activeIndex, abortRef, sugTimer, sugReqs,
                 blurTimeout>>

\* the debounce timer fires: abort the previous request, issue the new one
\* with setSuggestLoading(true); the aborted request's `finally` then runs
\* setSuggestLoading(false)
DebounceFires ==
  /\ mounted /\ sugTimer.set /\ Len(sugReqs) < MaxSuggestReqs
  /\ LET aborted == abort(sugReqs, abortRef) IN
     /\ sugReqs' = Append(aborted, Req(sugTimer.q, "flight"))
     /\ suggestLoading' = (IF aborted # sugReqs THEN FALSE ELSE TRUE)
  /\ abortRef' = Len(sugReqs) + 1
  /\ sugTimer' = NoTimer
  /\ UNCHANGED <<mounted, input, resolvedCik, filings, loading, error, calls,
                 suggestions, showSuggest, activeIndex, blurTimeout>>

\* /api/suggest answers request i, which was not aborted
SuggestResponds ==
  /\ \E i \in 1..Len(sugReqs) :
       /\ sugReqs[i].state = "flight"
       /\ \E a \in SuggestAnswers :
            IF a.ok
              THEN /\ suggestions' = [by |-> i, issued |-> Len(sugReqs), rows |-> a.rows]
                   /\ showSuggest' = TRUE
              ELSE /\ suggestions' = NoSuggestions
                   /\ showSuggest' = FALSE
       /\ sugReqs' = [sugReqs EXCEPT ![i] = Req(<<>>, "done")]
  /\ activeIndex' = NoActive
  /\ suggestLoading' = FALSE
  /\ UNCHANGED <<mounted, input, resolvedCik, filings, loading, error, calls,
                 abortRef, sugTimer, blurTimeout>>

-----------------------------------------------------------------------------
(* SpecFetch *)

InitFetch == InitFetchOnly /\ CacheIdle /\ KvIdle /\ LookupIdle /\ SuggestIdle /\ FilingIdle /\ PageIdle
NextFetch == CallFetchJSON /\ UNCHANGED <<cacheVars, kvVars, lookupVars, suggestVars, filingVars, pageVars>>
SpecFetch == InitFetch /\ [][NextFetch]_vars

-----------------------------------------------------------------------------
(* Spec: concurrent requests against the in-process cache *)

Init == FetchIdle /\ CacheIdle /\ KvIdle /\ LookupIdle /\ SuggestIdle /\ FilingIdle /\ PageIdle

Next ==
  \/ Tick /\ UNCHANGED <<fetchVars, kvVars, lookupVars, suggestVars, filingVars, pageVars>>
  \/ \E p \in Requests :
       /\ \/ LoadAllBegin(p)
          \/ LoadAllPrimary(p)
          \/ LoadAllSecondary(p)
       /\ UNCHANGED <<fetchVars, kvVars, lookupVars, suggestVars, filingVars, pageVars>>

Spec == Init /\ [][Next]_vars

(* C7: rows returned without invoking the Builder come from a build started
   less than the freshness window (3 600 000 ms) before the call *)
C7_StalenessBound ==
  (ret.kind = "rows" /\ ~ret.built) => (ret.age >= 0 /\ ret.age < 3600000)

C7_Witness ==
  ret.kind = "rows" /\ ~ret.built /\ ret.age = 1800000 /\ now > 3600000

\* the row lists a finished build can produce
CompleteLists ==
  {mergeSources(secondaryRows(r2), mapRows(r1.body.rows)) :
     r1 \in {r \in LoadAllPrimaryResults : r.ok}, r2 \in LoadAllSecondaryResults}

(* C23: the in-process cache is either empty, or the complete row list of one
   finished build together with the timestamp of that same build; rows
   handed to a caller are a complete list too *)
C23_AtomicSlot ==
  /\ IF CACHE.null
       THEN LAST = 0 /\ CACHE.rows = <<>>
       ELSE LAST = cacheSrc /\ CACHE.rows \in CompleteLists
  /\ ret.kind = "rows" => ret.rows \in CompleteLists

\* two calls missed at the same time after an earlier build; one has written
\* the slot while the other is past its primary fetch
C23_Witness ==
  /\ ~CACHE.null /\ LAST > 0 /\ CACHE.rows # <<>>
  /\ ret.kind = "rows" /\ ret.built
  /\ \E o \in Requests \ {ret.by} : pc[o] = "fetch2" /\ t0[o] = LAST

\* a step in which request p's primary fetch fails
BuildFails(p) == pc[p] = "fetch1" /\ pc'[p] = "idle"

(* C24: a build whose primary fetch fails leaves the cached rows and the
   timestamp as they were, and the response that follows a failed build is
   made by the Builder or is rows that have not expired *)
C24_FailedBuildIsNeutral ==
  [][/\ (\E p \in Requests : BuildFails(p)) => (CACHE' = CACHE /\ LAST' = LAST)
     /\ (ret.kind = "error" /\ ret' # ret) =>
          \/ ret'.built
          \/ /\ ret'.kind = "rows" /\ ~CACHE.null /\ ret'.rows = CACHE.rows
             /\ now - LAST < TTL_MS]_vars

\* the request whose build failed over expired rows has called again and is
\* building
C24_Witness ==
  /\ ret.kind = "error" /\ ~CACHE.null /\ now - LAST >= TTL_MS
  /\ pc[ret.by] = "fetch1" /\ t0[ret.by] = now

(* C25: the timestamp kept with the in-process cache never decreases, whatever
   the order in which concurrent builds finish *)
C25_TimestampMonotonic == [][LAST' >= LAST]_vars


-----------------------------------------------------------------------------
(* SpecKV: sequential calls of loadIndex, the tier configured or not *)

CacheRest == 
  /\ CACHE = Null /\ LAST = 0 /\ cacheSrc = 0
  /\ pc = [p \in Requests |-> "idle"]
  /\ t0 = [p \in Requests |-> 0]
  /\ arr1 = [p \in Requests |-> <<>>]
  /\ ret = NoReturn

InitKV ==
  /\ FetchIdle /\ LookupIdle /\ SuggestIdle /\ FilingIdle /\ PageIdle
  /\ now = 0 /\ CacheRest
  /\ kvConf \in BOOLEAN
  /\ kvStore = NoSlot /\ kvFlight = EmptyBag
  /\ kpc = "idle" /\ karr1 = <<>> /\ kret = NoKvReturn /\ khist = NoHist

KvRest == UNCHANGED <<fetchVars, lookupVars, suggestVars, filingVars, pageVars, CACHE, LAST, cacheSrc, pc, t0, arr1, ret>>

NextKV ==
  \/ KvTick /\ KvRest
  \/ LoadIndexBegin /\ KvRest
  \/ LoadIndexKvGet /\ KvRest
  \/ LoadIndexPrimary /\ KvRest
  \/ LoadIndexSecondary /\ KvRest
  \/ KvSetServed /\ KvRest
  \/ KvSetLost /\ KvRest

SpecKV == InitKV /\ [][NextKV]_vars

(* C1: a call issued less than the freshness window (3 600 000 ms) after the
   prior build returns exactly that build's rows and does not invoke the
   Builder again *)
C1_FreshCallServedFromCache ==
  (kret.kind # "none" /\ kret.hadPrev /\ kret.sincePrev < 3600000) =>
    (kret.kind = "rows" /\ ~kret.built /\ kret.rows = kret.prevRows)

(* C2: a call during which the configured external tier failed ends as it
   would with no tier configured: with the Builder's rows, or with the
   primary fetch's error, and never with an error of the tier *)
C2_KvFailureSwallowed ==
  (kret.kind # "none" /\ kret.kvFailed) =>
    (kret.built /\ (kret.kind = "error" => kret.err = "fetch_failed"))


-----------------------------------------------------------------------------
(* SpecLookup: one request against a registry drawn from RawPool *)

InitLookup ==
  /\ FetchIdle /\ CacheIdle /\ KvIdle /\ SuggestIdle /\ FilingIdle /\ PageIdle
  /\ InitLookupOnly

LookupRest == UNCHANGED <<fetchVars, cacheVars, kvVars, suggestVars, filingVars, pageVars>>

NextLookup ==
  \/ LookupGET /\ LookupRest
  \/ PageResolveCIK /\ LookupRest
  \/ SuggestLoadAll /\ LookupRest

SpecLookup == InitLookup /\ [][NextLookup]_vars


\* the request loaded an index: `list` is what the Builder returned
IndexBuilt == lpc = "done" /\ hit.via \in {"route", "suggest"} /\ hit.status # 500
RouteAnswered == lpc = "done" /\ hit.via = "route" /\ hit.status # 500

(* C3: a failed secondary fetch (non-success status or transport error) never
   makes the build fail and contributes no rows; the build fails exactly when
   the primary fetch fails *)
C3_SecondaryFailureSwallowed ==
  (lpc = "done" /\ hit.via \in {"route", "suggest"}
     /\ up2.kind \in {"status", "transport"}) =>
    /\ (hit.status = 500) <=> (up1.kind # "ok")
    /\ hit.status # 500 => list = mergeSources(<<>>, mapRows(up1.body.rows))

\* the rows of `rows` whose plain key is k
WithKey(rows, k) == {n \in 1..Len(rows) : plainKey(rows[n].ticker) = k}

(* C4: when a primary row and a secondary row have the same plain key and
   different canonical ids, the index holds one row for that key, a row of
   the secondary source, and not the primary's row *)
C4_SecondaryWins ==
  (IndexBuilt /\ up2.kind = "ok" /\ up2.body.isArray) =>
    LET a1 == mapRows(up1.body.rows)
        a2 == mapRows(up2.body.rows)
    IN \A i \in 1..Len(a1), j \in 1..Len(a2) :
         (plainKey(a1[i].ticker) = plainKey(a2[j].ticker) /\ a1[i].cik # a2[j].cik) =>
           /\ Cardinality(WithKey(list, plainKey(a2[j].ticker))) = 1
           /\ \A n \in WithKey(list, plainKey(a2[j].ticker)) : list[n] \in Range(a2)
           /\ a1[i] \notin Range(a2) => a1[i] \notin Range(list)

C4_Witness ==
  /\ IndexBuilt /\ hit.via = "route" /\ up2.kind = "ok" /\ up2.body.isArray
  /\ Len(list) = 2
  /\ \E i \in 1..Len(up1.body.rows), j \in 1..Len(up2.body.rows) :
       /\ plainKey(toRow(up1.body.rows[i]).ticker) = plainKey(toRow(up2.body.rows[j]).ticker)
       /\ toRow(up1.body.rows[i]).ticker # toRow(up2.body.rows[j]).ticker
       /\ toRow(up1.body.rows[i]).cik # toRow(up2.body.rows[j]).cik

\* the query as the resolver reads it: surrounding blanks dropped
QueryText == trim(q)
NumericShaped(s) == Len(s) >= 1 /\ Len(s) <= 10 /\ \A i \in 1..Len(s) : s[i] \in Digits
\* s left-padded with zeros to width 10
ZeroPadded(s) ==
  IF Len(s) >= 10 THEN s
  ELSE [i \in 1..10 |-> IF i <= 10 - Len(s) THEN "0" ELSE s[i - (10 - Len(s))]]

\* the tier at which row r matches the query: 1 canonical id, 2 symbol plain
\* key, 3 name prefix, 4 name substring, 5 none
TierOf(r) ==
  IF NumericShaped(QueryText) /\ r.cik = ZeroPadded(QueryText) THEN 1
  ELSE IF plainKey(r.ticker) = plainKey(toUpperCase(QueryText)) THEN 2
  ELSE IF startsWith(toUpperCase(r.name), toUpperCase(QueryText)) THEN 3
  ELSE IF includes(toUpperCase(r.name), toUpperCase(QueryText)) THEN 4
  ELSE 5
BestTier == IF list = <<>> THEN 5
            ELSE CHOOSE t \in 1..5 :
                   /\ \E n \in 1..Len(list) : TierOf(list[n]) = t
                   /\ \A n \in 1..Len(list) : TierOf(list[n]) >= t
FirstOfBestTier ==
  CHOOSE n \in 1..Len(list) :
    /\ TierOf(list[n]) = BestTier
    /\ \A m \in 1..(n - 1) : TierOf(list[m]) # BestTier

(* C8: resolve returns the first row, in index order, of the best tier that
   has a match (canonical id, symbol plain key, name prefix, name substring),
   and not_found when no row matches at any tier *)
C8_TierPrecedence ==
  (RouteAnswered /\ QueryText # <<>>) =>
    IF BestTier = 5
      THEN hit.status = 404
      ELSE hit.status = 200 /\ hit.row = list[FirstOfBestTier]

C8_Witness ==
  /\ RouteAnswered /\ hit.status = 200
  /\ Len(list) = 3
  /\ TierOf(list[1]) = 4 /\ TierOf(list[2]) = 3 /\ TierOf(list[3]) = 2
  /\ hit.row = list[3]

\* the dot/dash/plain forms of symbol s
VariantsOf(s) == {s, removeDots(s), dotsToDash(s), plainKey(s)}

(* C9 as claimed: a query that is a variant, in any letter case, of a symbol
   of the index resolves to the same canonical id as the symbol itself *)
C9_VariantEquivalence ==
  RouteAnswered =>
    \A n \in 1..Len(list) :
      (list[n].ticker # <<>> /\ toUpperCase(QueryText) \in VariantsOf(list[n].ticker)) =>
        /\ hit.status = resolve(list, list[n].ticker).status
        /\ hit.cik = resolve(list, list[n].ticker).cik

(* C9 amended: the same for every variant that is not empty and is not a
   string of 1 to 10 decimal digits *)
C9_VariantEquivalenceNonNumeric ==
  RouteAnswered =>
    \A n \in 1..Len(list) :
      ( /\ list[n].ticker # <<>>
        /\ toUpperCase(QueryText) \in VariantsOf(list[n].ticker)
        /\ QueryText # <<>>
        /\ ~NumericShaped(QueryText) ) =>
        /\ hit.status = 200
        /\ hit.status = resolve(list, list[n].ticker).status
        /\ hit.cik = resolve(list, list[n].ticker).cik

C9_Witness ==
  /\ RouteAnswered /\ hit.status = 200
  /\ q = <<"a", "-", "b">>
  /\ hit.row.ticker = <<"A", ".", "B">>
  /\ Len(list) >= 2 /\ list[1] # hit.row

(* C10: a query of 1 to 10 digits is normalized to itself when it has 10
   digits and to itself left-padded with zeros to width 10 otherwise, and
   resolves to a row with exactly that id when the index holds one *)
C10_NumericResolution ==
  (lpc = "done" /\ NumericShaped(q)) =>
    /\ hit.via = "page" => hit.cik = ZeroPadded(q)
    /\ (hit.via = "route" /\ hit.status # 500
          /\ \E n \in 1..Len(list) : list[n].cik = ZeroPadded(q)) =>
         (hit.status = 200 /\ hit.row.cik = ZeroPadded(q) /\ Len(hit.row.cik) = 10)

C10_Witness ==
  /\ lpc = "done" /\ hit.via = "route" /\ hit.status = 200
  /\ q = <<"1", "2">>
  /\ hit.cik = <<"0", "0", "0", "0", "0", "0", "0", "0", "1", "2">>
  /\ Len(list) >= 2 /\ list[1] # hit.row


-----------------------------------------------------------------------------
(* SpecSuggest: one request to a suggest route, the registry drawn from
   SuggestPool *)

InitSuggest ==
  /\ FetchIdle /\ CacheIdle /\ KvIdle /\ LookupIdle /\ FilingIdle /\ PageIdle
  /\ InitSuggestOnly

SuggestRest == UNCHANGED <<fetchVars, cacheVars, kvVars, lookupVars, filingVars, pageVars>>

NextSuggest ==
  \/ SuggestGET /\ SuggestRest
  \/ SuggestStartsGET /\ SuggestRest
  \/ SuggestWideGET /\ SuggestRest

SpecSuggest == InitSuggest /\ [][NextSuggest]_vars

\* a suggest request that loaded an index: sres.index is what loadAll returned
SuggestAnswered == sres.kind \in {"starts", "scored"}

(* C11: every row of a built index has a canonical id of exactly 10 decimal
   digits, whatever the upstream id value *)
C11_TenDigitIds ==
  SuggestAnswered =>
    \A i \in 1..Len(sres.index) :
      /\ Len(sres.index[i].cik) = 10
      /\ \A k \in 1..Len(sres.index[i].cik) : sres.index[i].cik[k] \in Digits

\* the key the Builder files a row under
KeyOf(row) == plainKey(trim(row.ticker))

(* C12: the list a build returns holds no two rows with the same plain key
   (the symbol, trimmed, with all dots and dashes removed) *)
C12_UniquePlainKeys ==
  IndexBuilt =>
    \A i, j \in 1..Len(list) : i # j => KeyOf(list[i]) # KeyOf(list[j])

\* both sources were read and two upstream rows share a plain key
C12_Witness ==
  /\ IndexBuilt /\ up1.kind = "ok" /\ up2.kind = "ok" /\ up2.body.isArray
  /\ Len(list) = 2
  /\ \E i \in 1..Len(up1.body.rows), j \in 1..Len(up2.body.rows) :
       /\ up1.body.rows[i].ticker # up2.body.rows[j].ticker
       /\ KeyOf(toRow(up1.body.rows[i])) = KeyOf(toRow(up2.body.rows[j]))
  /\ \E i, j \in 1..Len(up1.body.rows) :
       i # j /\ KeyOf(toRow(up1.body.rows[i])) # KeyOf(toRow(up1.body.rows[j]))

\* position of a row in the index of the request
PosOf(row) == CHOOSE i \in 1..Len(sres.index) : sres.index[i] = row
ScoreOf(row) == scoreRow(sq, row)
Positive == {i \in 1..Len(sres.index) : ScoreOf(sres.index[i]) > 0}
\* row a is ranked before row b
Before(a, b) ==
  ScoreOf(a) > ScoreOf(b) \/ (ScoreOf(a) = ScoreOf(b) /\ PosOf(a) < PosOf(b))

(* C13: a scored response to a query holds exactly rows with score > 0, in
   descending score order, rows of equal score in index order, cut to the
   first `limit` rows of that order; a row whose ticker is the query
   (score 100) comes before every row matched by name only (score <= 65) *)
C13_RankOrdering ==
  (sres.kind = "scored" /\ ~sres.limit.nan) =>
    /\ \A k \in 1..Len(sres.rows) :
         sres.rows[k] \in Range(sres.index) /\ ScoreOf(sres.rows[k]) > 0
    /\ \A k, l \in 1..Len(sres.rows) : k < l => Before(sres.rows[k], sres.rows[l])
    /\ Len(sres.rows) = IF Cardinality(Positive) < sres.limit.n
                          THEN Cardinality(Positive) ELSE sres.limit.n
    /\ \A i \in Positive :
         sres.index[i] \notin Range(sres.rows) =>
           \A k \in 1..Len(sres.rows) : Before(sres.rows[k], sres.index[i])
    /\ \A k, l \in 1..Len(sres.rows) :
         (ScoreOf(sres.rows[k]) = 100 /\ ScoreOf(sres.rows[l]) <= 65) => k < l

\* four rows score, the limit is 3, an exact ticker leads and two rows tie
C13_Witness ==
  /\ sres.kind = "scored" /\ sres.limit = Num(3)
  /\ Cardinality(Positive) = 4 /\ Len(sres.rows) = 3
  /\ ScoreOf(sres.rows[1]) = 100
  /\ ScoreOf(sres.rows[2]) = ScoreOf(sres.rows[3])
  /\ PosOf(sres.rows[1]) > PosOf(sres.rows[2])

\* the scoring table, on the plain keys of query and symbol
TableScore(qq, row) ==
  LET qU == toUpperCase(trim(qq))
      qKey == plainKey(qU)
      symKey == plainKey(trim(toUpperCase(row.ticker)))
      nameU == toUpperCase(row.name)
  IN CASE qKey = symKey -> 100
       [] qKey # symKey /\ startsWith(symKey, qKey) -> 90
       [] ~startsWith(symKey, qKey) /\ includes(symKey, qKey) -> 75
       [] ~includes(symKey, qKey) /\ startsWith(nameU, qU) -> 65
       [] ~includes(symKey, qKey) /\ ~startsWith(nameU, qU) /\ includes(nameU, qU) -> 50
       [] OTHER -> 0

(* C14: the score of a row for a query is 100 if the query's plain key is the
   symbol's plain key, else 90 if the symbol's plain key starts with it, else
   75 if it contains it, else 65 if the upper-cased name starts with the
   upper-cased query, else 50 if it contains it, else 0 *)
C14_ScoreFunction ==
  SuggestAnswered =>
    \A i \in 1..Len(sres.index) :
      scoreRow(sq, sres.index[i]) = TableScore(sq, sres.index[i])

\* the index of the request holds rows of four different positive scores
C14_Witness ==
  /\ sres.kind = "scored" /\ Len(sres.rows) = 4
  /\ {ScoreOf(sres.rows[k]) : k \in 1..4} = {100, 90, 75, 65}

(* C15: whatever the limit parameter (absent, below range, above range, not
   a number), the effective limit lies in 10..300 and a response never has
   more rows than the effective limit *)
C15_LimitClamped ==
  SuggestAnswered =>
    /\ ~sres.limit.nan
    /\ sres.limit.n >= 10 /\ sres.limit.n <= 300
    /\ Len(sres.rows) <= sres.limit.n

\* the letter of a one-character query
LetterOf(qq) == toUpperCase(trim(qq))

(* C16: the response to a query of one character c holds only rows whose
   symbol or name starts with c, letter case ignored, in ascending order of
   symbol; whatever it would score, such a row is left out only by the cut
   to `limit` rows *)
C16_SingleCharacter ==
  sres.kind = "starts" =>
    /\ Len(LetterOf(sq)) = 1
    /\ \A k \in 1..Len(sres.rows) :
         \/ startsWith(toUpperCase(sres.rows[k].ticker), LetterOf(sq))
         \/ startsWith(toUpperCase(sres.rows[k].name), LetterOf(sq))
    /\ \A k, l \in 1..Len(sres.rows) :
         k < l => localeCompare(sres.rows[k].ticker, sres.rows[l].ticker) <= 0
    /\ \A i \in 1..Len(sres.index) :
         (/\ ~sres.limit.nan /\ Len(sres.rows) < sres.limit.n
          /\ \/ startsWith(toUpperCase(sres.index[i].ticker), LetterOf(sq))
             \/ startsWith(toUpperCase(sres.index[i].name), LetterOf(sq)))
           => sres.index[i] \in Range(sres.rows)

\* two rows start with the letter, one of them by name only, the index is
\* not in symbol order, and a row that merely contains the letter is left out
C16_Witness ==
  /\ sres.kind = "starts" /\ Len(sres.rows) = 2 /\ Len(sres.index) = 4
  /\ \E k \in 1..2 : ~startsWith(sres.rows[k].ticker, LetterOf(sq))
  /\ \E i \in 1..4 : sres.index[i] \notin Range(sres.rows)
                       /\ scoreRow(sq, sres.index[i]) > 0
  /\ PosOf(sres.rows[1]) > PosOf(sres.rows[2])

-----------------------------------------------------------------------------
(* SpecFilings: one request to the filings route *)

InitFilings ==
  /\ FetchIdle /\ CacheIdle /\ KvIdle /\ LookupIdle /\ SuggestIdle /\ PageIdle
  /\ InitFilingsOnly

FilingsRest == UNCHANGED <<fetchVars, cacheVars, kvVars, lookupVars, suggestVars, pageVars>>

NextFilings == FilingsGET /\ FilingsRest

SpecFilings == InitFilings /\ [][NextFilings]_vars

\* the document fetch of a filing was made and failed
DocFailed(f) == Fetched(f) /\ f.doc.kind \in {"status", "transport", "badtext"}
Unenriched(rec) == rec.items = <<>> /\ rec.badges = <<>> /\ rec.amount_usd = NoAmount
\* the filings, the document fetch of the i-th one answered with a text
Repaired(fs, i) == [fs EXCEPT ![i] = Filing(fs[i].form, fs[i].primary, DocOk(SideText))]

(* C17: a filing whose document fetch fails (transport error or non-success
   status) is output with empty items, empty badges and no amount, and the
   other filings of the batch are output as if the fetch had not failed *)
C17_FailureIsolation ==
  (sub.kind = "ok" /\ fout.kind # "none") =>
    /\ fout.kind = "ok"
    /\ \A i \in 1..Len(fout.out) :
         DocFailed(sub.filings[i]) =>
           LET other == enrich(Repaired(sub.filings, i)).out
           IN /\ Unenriched(fout.out[i])
              /\ \A j \in 1..Len(fout.out) : j # i => fout.out[j] = other[j]

\* the first filing's fetch failed in transit and the second one has items
C17_Witness ==
  /\ fout.kind = "ok" /\ Len(fout.out) = 2
  /\ Fetched(sub.filings[1]) /\ sub.filings[1].doc.kind = "transport"
  /\ fout.out[2].items # <<>>

(* C18: the output has one record per recent filing, in the upstream order,
   at most 12 of them, whatever the outcome of the document fetches *)
C18_ShapePreserved ==
  (sub.kind = "ok" /\ fout.kind # "none") =>
    /\ fout.kind = "ok"
    /\ Len(fout.out) = IF Len(sub.filings) < 12 THEN Len(sub.filings) ELSE 12
    /\ \A i \in 1..Len(fout.out) :
         /\ fout.out[i].form = sub.filings[i].form
         /\ fout.out[i].primary_doc_url = primaryUrl(sub.filings[i])

\* fourteen recent filings, the first one's fetch failed: twelve records
C18_Witness ==
  /\ fout.kind = "ok" /\ Len(sub.filings) = 14 /\ Len(fout.out) = 12
  /\ DocFailed(sub.filings[1])
  /\ fout.out[1].form # fout.out[2].form /\ fout.out[2].form # fout.out[3].form

\* the url ends in .htm, .html or .txt, letter case ignored
EndsHtmlLike(url) ==
  \E ext \in { <<".", "h", "t", "m">>, <<".", "h", "t", "m", "l">>, <<".", "t", "x", "t">> } :
    Len(url) >= Len(ext)
      /\ \A k \in 1..Len(ext) : LowerChar(url[Len(url) - Len(ext) + k]) = ext[k]

(* C19: in every output record items and badges are non-empty only if the
   form begins with 8-K, amount_usd is set only if the form is S-1, 424B1,
   424B2, 424B3 or 424B4, and a record whose primary document url does not
   end in .htm, .html or .txt has empty items, empty badges and no amount *)
C19_Classification ==
  fout.kind = "ok" =>
    \A i \in 1..Len(fout.out) :
      LET rec == fout.out[i]
          formU == toUpperCase(rec.form)
      IN /\ (rec.items # <<>> \/ rec.badges # <<>>) =>
              (Len(formU) >= 3 /\ SubSeq(formU, 1, 3) = <<"8", "-", "K">>)
         /\ rec.amount_usd.set =>
              formU \in { <<"S", "-", "1">>, <<"4", "2", "4", "B", "1">>,
                          <<"4", "2", "4", "B", "2">>, <<"4", "2", "4", "B", "3">>,
                          <<"4", "2", "4", "B", "4">> }
         /\ ~EndsHtmlLike(rec.primary_doc_url) => Unenriched(rec)

\* an 8-K with items beside an 8-K whose document is a pdf
C19_Witness ==
  /\ fout.kind = "ok" /\ Len(fout.out) = 2
  /\ fout.out[1].items # <<>> /\ fout.out[1].badges # <<>>
  /\ fout.out[2].form = EightK /\ ~EndsHtmlLike(fout.out[2].primary_doc_url)
  /\ sub.filings[2].doc.kind = "ok" /\ Unenriched(fout.out[2])

\* an item code whatever its letter case and spacing
NotSpace(c) == c # " "
CodeOf(item) == SelectSeq(toLowerCase(item), NotSpace)

(* C20: items holds each detected item code once, so a code that appears
   several times in the text, in the same or another letter case or spacing,
   is one entry of items, and badges never holds a badge twice *)
C20_ItemsDeduplicated ==
  fout.kind = "ok" =>
    \A i \in 1..Len(fout.out) :
      /\ \A k, l \in 1..Len(fout.out[i].items) :
           k # l => CodeOf(fout.out[i].items[k]) # CodeOf(fout.out[i].items[l])
      /\ \A k, l \in 1..Len(fout.out[i].badges) :
           k # l => fout.out[i].badges[k] # fout.out[i].badges[l]

\* the text the detectors of record i were given, and whether they were given one
TextOf(i) == stripTags(sub.filings[i].doc.text)
DocRead(i) == Fetched(sub.filings[i]) /\ sub.filings[i].doc.kind = "ok"

Code101 == <<"i", "t", "e", "m", "1", ".", "0", "1">>
Code502 == <<"i", "t", "e", "m", "5", ".", "0", "2">>
HasCode(items, code) == \E k \in 1..Len(items) : CodeOf(items[k]) = code

(* C21: badges holds the material-agreement badge exactly when items holds an
   occurrence of code 1.01, and the executive-change badge exactly when items
   holds an occurrence of code 5.02, whatever the letter case and the blanks
   between "Item" and the number; no other code adds a badge *)
C21_BadgeMapping ==
  fout.kind = "ok" =>
    \A i \in 1..Len(fout.out) :
      LET rec == fout.out[i] IN
      /\ BadgeAgreement \in Range(rec.badges) <=> HasCode(rec.items, Code101)
      /\ BadgeExecutive \in Range(rec.badges) <=> HasCode(rec.items, Code502)
      /\ Range(rec.badges) \subseteq {BadgeAgreement, BadgeExecutive}

\* a run of digits that begins a number: no digit, separator or decimal point
\* of the same number before it
NumberStart(s, p) ==
  /\ IsDigit(At(s, p))
  /\ ~IsDigit(At(s, p - 1))
  /\ ~(At(s, p - 1) \in {",", "."} /\ IsDigit(At(s, p - 2)))
WholePart(s, p) == parseFloat(SubSeq(s, p, p + digitsFrom(s, p) - 1))

(* C22: the amount of an offering whose document was read is the maximum of
   the monetary expressions of the document, so it is set exactly when the
   document has a number and it is no less than the whole part of any number
   of the document; no other record has an amount *)
C22_AmountIsMaximum ==
  fout.kind = "ok" =>
    \A i \in 1..Len(fout.out) :
      LET a == fout.out[i].amount_usd
          text == TextOf(i) IN
      IF DocRead(i) /\ IsOffering(sub.filings[i].form)
        THEN /\ a.set <=> \E p \in 1..Len(text) : IsDigit(text[p])
             /\ \A p \in 1..Len(text) :
                  NumberStart(text, p) => ~greater(WholePart(text, p), a)
        ELSE ~a.set

-----------------------------------------------------------------------------
(* SpecPage: the page's handlers, timers and network responses *)

InitPage ==
  /\ FetchIdle /\ CacheIdle /\ KvIdle /\ LookupIdle /\ SuggestIdle /\ FilingIdle
  /\ PageIdle

PageRest == UNCHANGED <<fetchVars, cacheVars, kvVars, lookupVars, suggestVars, filingVars>>

NextPage ==
  \/ Mount /\ PageRest
  \/ ChangeInput /\ PageRest
  \/ InputFocus /\ PageRest
  \/ InputBlur /\ PageRest
  \/ BlurTimerFires /\ PageRest
  \/ KeyDown /\ PageRest
  \/ ClickFetch /\ PageRest
  \/ AutoRefresh /\ PageRest
  \/ ClickSample /\ PageRest
  \/ PickSuggestion /\ PageRest
  \/ LookupResponds /\ PageRest
  \/ FilingsResponds /\ PageRest
  \/ DebounceFires /\ PageRest
  \/ SuggestResponds /\ PageRest

SpecPage == InitPage /\ [][NextPage]_vars

\* the calls whose filings were shown, and whether a call is still running
Shown == {i \in 1..Len(calls) : calls[i].stage = "ok"}
Quiet == \A i \in 1..Len(calls) : calls[i].stage \in {"ok", "failed", "unknown"}
Latest(ids) == CHOOSE i \in ids : \A j \in ids : j <= i

(* C26: the filings shown are those of the latest call that was answered (an
   earlier call's answer arriving later does not replace them), so once no
   call is running and no error is shown they are the filings of the
   registrant id shown; and the loading flag is true whenever a filings
   request is in flight *)
C26_FilingsMatchRegistrant ==
  /\ Shown # {} => filings.by = Latest(Shown)
  /\ (Quiet /\ error = NoError /\ filings.rows # <<>>) =>
       \A k \in 1..Len(filings.rows) : filings.rows[k].cik = resolvedCik
  /\ (\E i \in 1..Len(calls) : calls[i].stage = "filings") => loading

InFlight == {i \in 1..Len(sugReqs) : sugReqs[i].state = "flight"}

(* C27: a new suggest request aborts the previous one before it is issued (at
   most the latest request is in flight), the suggestion list is only set
   from the request issued last, and suggestLoading is true whenever a
   request that was not aborted is in flight *)
C27_SuggestEffect ==
  /\ InFlight \subseteq {abortRef} /\ abortRef = Len(sugReqs)
  /\ suggestions.by # 0 => suggestions.by = suggestions.issued
  /\ InFlight # {} => suggestLoading

=============================================================================
